---- MODULE Spec2Model ----
(***************************************************************************)
(* GenAgentX: the agent execution loop (services/agentExecutor.js), the    *)
(* tool invoker and function-call parser (services/toolExecutor.js) and    *)
(* the caller of the loop (services/llmService.js), as a state machine.    *)
(*                                                                         *)
(* Conventions.  A JavaScript value is a record with a field "type".  A    *)
(* text is a sequence of tokens (strings); string concatenation of texts   *)
(* is \o on sequences.  The outcome of a call is Return(v) or Throw(e).    *)
(***************************************************************************)
EXTENDS Naturals, Integers, Sequences, FiniteSets, TLC

VARIABLES
    pc,                  \* position of the run: loop, awaitGateway, forCalls, awaitTool, returned, finished
    agent,               \* the agent this run executes (its tool identifiers)
    toolStore,           \* the tool store: identifier -> ToolDefinition
    agentTools,          \* agentExecutor.js:34  resolved tool definitions
    iteration,           \* agentExecutor.js:25
    conversationHistory, \* agentExecutor.js:23
    toolExecutionLog,    \* agentExecutor.js:24
    functionCalls,       \* agentExecutor.js:70  calls parsed from the last reply
    callIdx,             \* position of the for..of loop at agentExecutor.js:87
    result,              \* value returned by executeAgentWithTools
    exit,                \* the return statement the run left by: none, DONE, FAILED, EXHAUSTED
    agentOutcome,        \* what executeAgent hands its caller (return value or thrown error)
    gatewayRequests,     \* requests sent to the model backend during the run
    invocations,         \* calls of executeTool made since the last model reply
    lastReply,           \* text of the last reply the gateway returned
    requestBody,         \* agentExecutor.js:246  body of the last request sent
    tTool, tArgs, tEnv, tOut, tPath, tPc,   \* a single executeTool call (specification SpecTool)
    pText, pCalls, pPc,                     \* a single parseFunctionCalls call (SpecParse)
    customParams, generationConfig, gPc,    \* generation parameters of a request (SpecParams)
    ragAgent, ragSearch, ragBackend, searchCalls, systemPrompt, ragOutcome, ragPc,
                                            \* knowledge retrieval on both paths (SpecRag)
    exportFile, deleted, sPc,               \* the tool store's operations (SpecStore)
    runOutcome, runInput, executionLogs, sinkWrites, shownError, hPc,
                                            \* RunAgentModal handleRun (SpecLog)
    runs,                                   \* two runs of executeAgentWithTools (SpecTwo)
    bStore, bGone, bFirst, bRun, bPc,       \* the tool store across two startups (SpecBoot)
    dAgents, dWorkflows, dTarget, dPc       \* handleDeleteAgent and the stores (SpecDelete)

runVars == <<pc, agent, toolStore, agentTools, iteration, conversationHistory,
             toolExecutionLog, functionCalls, callIdx, result, exit, agentOutcome,
             gatewayRequests, invocations, lastReply, requestBody>>

toolVars == <<tTool, tArgs, tEnv, tOut, tPath, tPc>>

parseVars == <<pText, pCalls, pPc>>

paramVars == <<customParams, generationConfig, gPc>>

ragVars == <<ragAgent, ragSearch, ragBackend, searchCalls, systemPrompt, ragOutcome, ragPc>>

storeVars == <<exportFile, deleted, sPc>>

logVars == <<runOutcome, runInput, executionLogs, sinkWrites, shownError, hPc>>

twoVars == <<runs>>

bootVars == <<bStore, bGone, bFirst, bRun, bPc>>

deleteVars == <<dAgents, dWorkflows, dTarget, dPc>>

extraVars == <<twoVars, bootVars, deleteVars>>

\* everything outside the agent loop
sideVars == <<toolVars, parseVars, paramVars, ragVars, storeVars, logVars, extraVars>>

vars == <<runVars, sideVars>>

(***************************************************************************)
(* JavaScript values and call outcomes                                     *)
(***************************************************************************)
Undefined == [type |-> "undefined"]
Null == [type |-> "null"]
EmptyObject == [type |-> "object"]

Return(v) == [threw |-> FALSE, value |-> v]
Throw(e) == [threw |-> TRUE, error |-> e]

\* new Error(message), and the non-Error value thrown by `throw null`
Err(message) == [isError |-> TRUE, message |-> message]
ThrownNull == [isError |-> FALSE, message |-> "null"]

\* error.message inside a catch block: reading .message of null throws a TypeError
MessageOf(e) ==
    IF e.isError THEN Return(e.message)
    ELSE Throw(Err("Cannot read properties of null (reading 'message')"))

IsNullish(v) == v.type \in {"undefined", "null"}

(***************************************************************************)
(* Tool definitions.  codeImplementation is a text: a sequence of source   *)
(* fragments; a tool without the field has no body (undefined / null).     *)
(***************************************************************************)
Whitespace == {" ", "\n", "\t"}

RECURSIVE TrimStart(_)
TrimStart(s) ==
    IF s # <<>> /\ Head(s) \in Whitespace THEN TrimStart(Tail(s)) ELSE s

RECURSIVE TrimEnd(_)
TrimEnd(s) ==
    IF s # <<>> /\ s[Len(s)] \in Whitespace THEN TrimEnd(SubSeq(s, 1, Len(s) - 1)) ELSE s

\* String.prototype.trim
Trim(s) == TrimEnd(TrimStart(s))

\* source fragments a body is made of
StmtPlain == "const x = 1;"
FnReturn == "async function execute(args) { return { success: true, output: 'value' }; }"
FnThrow == "async function execute(args) { throw new Error('boom'); }"
FnThrowNull == "async function execute(args) { throw null; }"
FnBigInt == "async function execute(args) { return { success: true, id: 10n }; }"
FnUseArgs == "async function execute(args) { return { success: true, text: args.text }; }"
StmtSyntax == "function execute(args) {"
StmtReturnFn == "return async (args) => ({ success: true, output: 'value' });"
StmtReturnValue == "return 5;"
StmtThrow == "throw new Error('init failed');"
StmtConstExecute == "const execute = 5;"

ExecuteFragments == {FnReturn, FnThrow, FnThrowNull, FnBigInt, FnUseArgs}

HasBody(tool) == "codeImplementation" \in DOMAIN tool

\* the test without the trim: a body of whitespace counts as code
BodyIsNonBlank_NoTrim(tool) ==
    /\ HasBody(tool)
    /\ tool.codeImplementation # <<>>

\* tool.codeImplementation && tool.codeImplementation.trim()
BodyIsNonBlank(tool) ==
    /\ HasBody(tool)
    /\ tool.codeImplementation # <<>>
    /\ Trim(tool.codeImplementation) # <<>>

\* the values a custom body can return
CustomValue == [type |-> "object", success |-> TRUE, output |-> "value"]
BigIntValue == [type |-> "object", success |-> TRUE, id |-> "10n", bigint |-> TRUE]
EchoValue(args) ==
    [type |-> "object", success |-> TRUE,
     text |-> IF "text" \in DOMAIN args THEN args.text ELSE [type |-> "undefined"]]

\* the function declared last wins (declarations are hoisted)
RECURSIVE LastExecute(_)
LastExecute(body) ==
    IF body = <<>> THEN ""
    ELSE IF body[Len(body)] \in ExecuteFragments THEN body[Len(body)]
    ELSE LastExecute(SubSeq(body, 1, Len(body) - 1))

\* await executeFunction(args) for the entry point `fn`
CallExecute(fn, args) ==
    CASE fn = FnReturn -> Return(CustomValue)
      [] fn = FnThrow -> Throw(Err("boom"))
      [] fn = FnThrowNull -> Throw(ThrownNull)
      [] fn = FnBigInt -> Return(BigIntValue)
      [] fn = StmtReturnFn -> Return(CustomValue)
      [] fn = FnUseArgs ->
            IF IsNullish(args)
            THEN Throw(Err("Cannot read properties of null (reading 'text')"))
            ELSE Return(EchoValue(args))

\* the statements that end the body's run at its top level
TopLevelExits == {StmtReturnFn, StmtReturnValue, StmtThrow}

\* the first top-level return or throw of the body, "" when it runs to its end
RECURSIVE FirstExit(_)
FirstExit(body) ==
    IF body = <<>> THEN ""
    ELSE IF Head(body) \in TopLevelExits THEN Head(body)
    ELSE FirstExit(Tail(body))

Has(body, fragment) == \E i \in 1..Len(body) : body[i] = fragment

\* the wrapped code run without its `typeof execute` test: a body that runs to
\* its end hands back whatever `execute` is
Factory_NoTypeTest(body) ==
    IF Has(body, StmtSyntax) THEN Throw(Err("Unexpected end of input"))
    ELSE IF Has(body, StmtConstExecute) /\ LastExecute(body) # ""
    THEN Throw(Err("Identifier 'execute' has already been declared"))
    ELSE CASE FirstExit(body) = StmtThrow -> Throw(Err("init failed"))
           [] FirstExit(body) = StmtReturnFn -> Return(StmtReturnFn)
           [] FirstExit(body) = StmtReturnValue -> Return("5")
           [] OTHER ->
                IF LastExecute(body) # "" THEN Return(LastExecute(body))
                ELSE IF Has(body, StmtConstExecute) THEN Return("5")
                ELSE Throw(Err("execute is not defined"))

\* toolExecutor.js:62-76: new AsyncFunction(wrappedCode) and await codeFactory():
\* the body is compiled and run; a top-level return or throw ends it, otherwise
\* the wrapper returns `execute` when it is a function and throws when it is not
Factory(body) ==
    IF Has(body, StmtSyntax) THEN Throw(Err("Unexpected end of input"))
    ELSE IF Has(body, StmtConstExecute) /\ LastExecute(body) # ""
    THEN Throw(Err("Identifier 'execute' has already been declared"))
    ELSE CASE FirstExit(body) = StmtThrow -> Throw(Err("init failed"))
           [] FirstExit(body) = StmtReturnFn -> Return(StmtReturnFn)
           [] FirstExit(body) = StmtReturnValue -> Return("5")
           [] OTHER ->
                IF LastExecute(body) # "" THEN Return(LastExecute(body))
                ELSE Throw(Err("Code must define an \"execute\" function"))

\* the values of the factory that are functions
Callables == ExecuteFragments \cup {StmtReturnFn}

\* the try block of executeCustomCode: compile, run the factory, call what it returned
CustomCodeTry(tool, args) ==
    LET made == Factory(tool.codeImplementation)
    IN  IF made.threw THEN made
        ELSE IF made.value \notin Callables
        THEN Throw(Err("executeFunction is not a function"))
        ELSE CallExecute(made.value, args)

\* was a function of the body invoked by this call
EntryPointInvoked(tool) ==
    /\ BodyIsNonBlank(tool)
    /\ ~Factory(tool.codeImplementation).threw
    /\ Factory(tool.codeImplementation).value \in Callables

\* executeCustomCode: whatever the try block throws is rethrown wrapped
executeCustomCode(tool, args) ==
    LET r == CustomCodeTry(tool, args)
    IN  IF ~r.threw THEN r
        ELSE LET m == MessageOf(r.error)
             IN  IF m.threw THEN m
                 ELSE Throw(Err("Custom code execution failed: " \o m.value))

(***************************************************************************)
(* Built-in tool implementations                                           *)
(***************************************************************************)
BuiltinNames == {"calculator", "data_analyzer", "api_caller", "current_datetime", "uuid_generator"}

\* the characters of the string literals the model uses
CharsOf(str) ==
    CASE str = "2 + 2" -> <<"2", " ", "+", " ", "2">>
      [] str = "3 * 4 - 5" -> <<"3", " ", "*", " ", "4", " ", "-", " ", "5">>
      [] str = "abc" -> <<"a", "b", "c">>
      [] str = "2 +" -> <<"2", " ", "+">>
      [] str = "2 + 2; alert(1)" ->
            <<"2", " ", "+", " ", "2", ";", " ", "a", "l", "e", "r", "t", "(", "1", ")">>
      [] str = "2 * 3(4)" -> <<"2", " ", "*", " ", "3", "(", "4", ")">>
      [] OTHER -> <<>>

Digits == {"0", "1", "2", "3", "4", "5", "6", "7", "8", "9"}
CalcAllowed == Digits \cup {"+", "-", "*", "/", "(", ")", "."} \cup Whitespace

\* expression.replace(/[^0-9+\-*/().\s]/g, '')
Sanitize(chars) == SelectSeq(chars, LAMBDA c : c \in CalcAllowed)

DigitValue(c) ==
    CASE c = "0" -> 0 [] c = "1" -> 1 [] c = "2" -> 2 [] c = "3" -> 3 [] c = "4" -> 4
      [] c = "5" -> 5 [] c = "6" -> 6 [] c = "7" -> 7 [] c = "8" -> 8 [] c = "9" -> 9

NoSpace(chars) == SelectSeq(chars, LAMBDA c : c \notin Whitespace)

\* the number called in a text  ... d ( ... )
RECURSIVE Callee(_)
Callee(cs) == IF cs[2] = "(" THEN cs[1] ELSE Callee(Tail(cs))

\* value of a product  d * d * ...  of single digits, which may end in a call
\* d ( product )  of a digit: -1 when the text is neither, -2 when it ends in a call
RECURSIVE EvalTerm(_)
EvalTerm(cs) ==
    IF cs = <<>> \/ Head(cs) \notin Digits THEN -1
    ELSE IF Len(cs) = 1 THEN DigitValue(cs[1])
    ELSE IF cs[2] = "("
    THEN (IF /\ Len(cs) >= 4
             /\ cs[Len(cs)] = ")"
             /\ EvalTerm(SubSeq(cs, 3, Len(cs) - 1)) >= 0
          THEN -2 ELSE -1)
    ELSE IF cs[2] # "*" THEN -1
    ELSE LET rest == EvalTerm(SubSeq(cs, 3, Len(cs)))
         IN  IF rest < 0 THEN rest ELSE DigitValue(cs[1]) * rest

\* position of the last + or - of the text, 0 when there is none
RECURSIVE LastAdditive(_, _)
LastAdditive(cs, i) ==
    IF i = 0 THEN 0 ELSE IF cs[i] \in {"+", "-"} THEN i ELSE LastAdditive(cs, i - 1)

SyntaxError == Err("Unexpected token")
NotAFunction(cs) == Err(Callee(cs) \o " is not a function")

\* Function(`'use strict'; return (${sanitized})`)() on sums and differences of
\* products of single digits: a text that does not parse is a SyntaxError, raised
\* before anything runs; calling a number is a TypeError, raised when the call is
\* reached, left operand first
RECURSIVE EvalSum(_)
EvalSum(cs) ==
    LET k == LastAdditive(cs, Len(cs))
    IN  IF k = 0
        THEN (CASE EvalTerm(cs) = -1 -> Throw(SyntaxError)
                [] EvalTerm(cs) = -2 -> Throw(NotAFunction(cs))
                [] OTHER -> Return(EvalTerm(cs)))
        ELSE LET l == EvalSum(SubSeq(cs, 1, k - 1))
                 right == SubSeq(cs, k + 1, Len(cs))
                 r == EvalTerm(right)
             IN  IF (l.threw /\ l.error = SyntaxError) \/ r = -1 THEN Throw(SyntaxError)
                 ELSE IF l.threw THEN l
                 ELSE IF r = -2 THEN Throw(NotAFunction(right))
                 ELSE Return(IF cs[k] = "+" THEN l.value + r ELSE l.value - r)

executeCalculator(args) ==
    IF IsNullish(args)
    THEN Throw(Err("Cannot destructure property 'expression' of 'args' as it is undefined."))
    ELSE IF "expression" \notin DOMAIN args
    THEN Throw(Err("Calculation failed: Cannot read properties of undefined (reading 'replace')"))
    ELSE IF args.expression.type # "string"
    THEN Throw(Err("Calculation failed: expression.replace is not a function"))
    ELSE LET sanitized == Sanitize(CharsOf(args.expression.str))
         IN  IF sanitized = <<>>
             THEN Throw(Err("Calculation failed: Invalid mathematical expression"))
             ELSE LET v == EvalSum(NoSpace(sanitized))
                  IN  IF v.threw
                      THEN Throw(Err("Calculation failed: " \o v.error.message))
                      ELSE Return([type |-> "object", success |-> TRUE,
                                   expression |-> args.expression, result |-> v.value])

\* the statistics of a list of naturals that stay integral
RECURSIVE SumOf(_)
SumOf(s) == IF s = <<>> THEN 0 ELSE Head(s) + SumOf(Tail(s))
MinOf(s) == CHOOSE x \in {s[i] : i \in 1..Len(s)} : \A j \in 1..Len(s) : x <= s[j]
MaxOf(s) == CHOOSE x \in {s[i] : i \in 1..Len(s)} : \A j \in 1..Len(s) : x >= s[j]

executeDataAnalyzer(args) ==
    IF IsNullish(args)
    THEN Throw(Err("Cannot destructure property 'data' of 'args' as it is undefined."))
    ELSE IF "data" \notin DOMAIN args \/ args.type # "object" \/ args.data = <<>>
    THEN Throw(Err("Data must be a non-empty array"))
    ELSE Return([type |-> "object", success |-> TRUE, analysis_type |-> "summary",
                 count |-> Len(args.data), sum |-> SumOf(args.data),
                 min |-> MinOf(args.data), max |-> MaxOf(args.data),
                 range |-> MaxOf(args.data) - MinOf(args.data)])

\* env.network is what fetch does: "ok" or "fail"
executeApiCaller(args, env) ==
    IF IsNullish(args)
    THEN Throw(Err("Cannot destructure property 'url' of 'args' as it is undefined."))
    ELSE IF env.network = "fail"
    THEN Throw(Err("API call failed: Failed to fetch"))
    ELSE Return([type |-> "object", success |-> TRUE, statusText |-> "OK"])

\* args = {} applies to undefined only; destructuring null throws
executeCurrentDateTime(args, env) ==
    IF args.type = "null"
    THEN Throw(Err("Cannot destructure property 'timezone' of 'args' as it is null."))
    ELSE Return([type |-> "object", success |-> TRUE, isoUtc |-> env.now])

executeUuidGenerator(env) ==
    Return([type |-> "object", success |-> TRUE, uuid |-> env.uuid])

(***************************************************************************)
(* The tool invoker                                                        *)
(***************************************************************************)
\* the dispatch with the name tested first: a built-in name shadows the body
ExecuteToolTry_NameFirst(tool, args, env) ==
    CASE tool.name = "calculator" ->
            [path |-> "builtin", out |-> executeCalculator(args)]
      [] tool.name = "data_analyzer" ->
            [path |-> "builtin", out |-> executeDataAnalyzer(args)]
      [] tool.name = "api_caller" ->
            [path |-> "builtin", out |-> executeApiCaller(args, env)]
      [] tool.name = "current_datetime" ->
            [path |-> "builtin", out |-> executeCurrentDateTime(args, env)]
      [] tool.name = "uuid_generator" ->
            [path |-> "builtin", out |-> executeUuidGenerator(env)]
      [] OTHER ->
            IF BodyIsNonBlank(tool)
            THEN [path |-> "custom", out |-> executeCustomCode(tool, args)]
            ELSE [path |-> "none",
                  out |-> Throw(Err("Tool '" \o tool.name \o
                                    "' is not implemented and has no custom code"))]

\* toolExecutor.js:13-39, the try block: which implementation runs, and its outcome
ExecuteToolTry(tool, args, env) ==
    IF BodyIsNonBlank(tool)
    THEN [path |-> "custom", out |-> executeCustomCode(tool, args)]
    ELSE CASE tool.name = "calculator" ->
                [path |-> "builtin", out |-> executeCalculator(args)]
           [] tool.name = "data_analyzer" ->
                [path |-> "builtin", out |-> executeDataAnalyzer(args)]
           [] tool.name = "api_caller" ->
                [path |-> "builtin", out |-> executeApiCaller(args, env)]
           [] tool.name = "current_datetime" ->
                [path |-> "builtin", out |-> executeCurrentDateTime(args, env)]
           [] tool.name = "uuid_generator" ->
                [path |-> "builtin", out |-> executeUuidGenerator(env)]
           [] OTHER ->
                [path |-> "none",
                 out |-> Throw(Err("Tool '" \o tool.name \o
                                   "' is not implemented and has no custom code"))]

StructuredFailure(message, toolName) ==
    [type |-> "object", error |-> TRUE, message |-> message, toolName |-> toolName]

\* the catch block rethrowing what it caught
ExecuteToolCatch_Rethrow(tool, e) == Throw(e)

\* toolExecutor.js:40-47, the catch block
ExecuteToolCatch(tool, e) ==
    LET m == MessageOf(e)
    IN  IF m.threw THEN m ELSE Return(StructuredFailure(m.value, tool.name))

\* executeTool with the try/catch around the custom-code branch only
executeTool_CustomOnlyCaught(tool, args, env) ==
    LET t == ExecuteToolTry(tool, args, env)
    IN  [path |-> t.path,
         out |-> IF t.out.threw /\ t.path = "custom"
                 THEN ExecuteToolCatch(tool, t.out.error) ELSE t.out]

\* executeTool(tool, args): the outcome the caller sees and the path taken
executeTool(tool, args, env) ==
    LET t == ExecuteToolTry(tool, args, env)
    IN  [path |-> t.path,
         out |-> IF t.out.threw THEN ExecuteToolCatch(tool, t.out.error) ELSE t.out]

(***************************************************************************)
(* The function-call parser.  A reply text is a sequence of tokens: the    *)
(* punctuation { } : , a quoted string Quote(s), or a word of prose.       *)
(***************************************************************************)
Quote(str) == "\"" \o str \o "\""

StringLiterals == {"function", "arguments", "calculator", "my_tool", "ghost",
                   "expression", "text", "2 + 2", "hi"}

StringTokens == {Quote(str) : str \in StringLiterals}
IsStringToken(tok) == tok \in StringTokens
Unquote(tok) == CHOOSE str \in StringLiterals : tok = Quote(str)
Str(str) == [type |-> "string", str |-> str]

\* first position >= from whose token is in the set P, 0 when there is none
RECURSIVE FirstAt(_, _, _)
FirstAt(text, from, P) ==
    IF from > Len(text) \/ from = 0 THEN 0
    ELSE IF text[from] \in P THEN from
    ELSE FirstAt(text, from + 1, P)

After(p) == IF p = 0 THEN 0 ELSE p + 1

\* toolExecutor.js:241, the pattern from an opening brace at position s: every
\* [\s\S]*? is lazy, so each element matches at its first occurrence after the
\* previous one.  The position of the closing brace of the match, 0 when none.
RegexMatchEnd(text, s) ==
    LET p1 == FirstAt(text, After(s), {Quote("function")})
        p2 == FirstAt(text, After(p1), {":"})
        p3 == FirstAt(text, After(p2), StringTokens)
        p4 == FirstAt(text, After(p3), {","})
        p5 == FirstAt(text, After(p4), {Quote("arguments")})
        p6 == FirstAt(text, After(p5), {":"})
        p7 == FirstAt(text, After(p6), {"{"})
        p8 == FirstAt(text, After(p7), {"}"})
    IN  FirstAt(text, After(p8), {"}"})

\* functionCallRegex.exec(text) from lastIndex: <<start, end>> of the leftmost match
RECURSIVE RegexExec(_, _)
RegexExec(text, lastIndex) ==
    LET s == FirstAt(text, lastIndex, {"{"})
    IN  IF s = 0 THEN <<0, 0>>
        ELSE IF RegexMatchEnd(text, s) # 0 THEN <<s, RegexMatchEnd(text, s)>>
        ELSE RegexExec(text, s + 1)

\* JSON.parse on tokens: [ok, value, next]; next is the position after the value
JsonFail == [ok |-> FALSE, value |-> Undefined, next |-> 0]

RECURSIVE JsonValue(_, _)
RECURSIVE JsonMembers(_, _, _)
JsonValue(toks, i) ==
    IF i > Len(toks) THEN JsonFail
    ELSE IF IsStringToken(toks[i])
    THEN [ok |-> TRUE, value |-> Str(Unquote(toks[i])), next |-> i + 1]
    ELSE IF toks[i] # "{" THEN JsonFail
    ELSE IF i + 1 <= Len(toks) /\ toks[i + 1] = "}"
    THEN [ok |-> TRUE, value |-> EmptyObject, next |-> i + 2]
    ELSE JsonMembers(toks, i + 1, EmptyObject)

\* the members "key": value, ... of an object, up to its closing brace
JsonMembers(toks, i, obj) ==
    IF i + 2 > Len(toks) \/ ~IsStringToken(toks[i]) \/ toks[i + 1] # ":" THEN JsonFail
    ELSE LET v == JsonValue(toks, i + 2)
             withKey == (Unquote(toks[i]) :> v.value) @@ obj
         IN  IF ~v.ok \/ v.next > Len(toks) THEN JsonFail
             ELSE IF toks[v.next] = "}"
             THEN [ok |-> TRUE, value |-> withKey, next |-> v.next + 1]
             ELSE IF toks[v.next] = ","
             THEN JsonMembers(toks, v.next + 1, withKey)
             ELSE JsonFail

\* JSON.parse(match[0]): the whole match must be one value
JsonParse(toks) ==
    LET v == JsonValue(toks, 1)
    IN  IF v.ok /\ v.next = Len(toks) + 1 THEN Return(v.value)
        ELSE Throw(Err("Unexpected token in JSON"))

Field(obj, key) == IF key \in DOMAIN obj THEN obj[key] ELSE Undefined

\* the scan with the try/catch around the whole loop: the first match that does
\* not parse ends the scan
RECURSIVE ScanCalls_StopAtMalformed(_, _)
ScanCalls_StopAtMalformed(text, lastIndex) ==
    LET m == RegexExec(text, lastIndex)
    IN  IF m[1] = 0 THEN <<>>
        ELSE LET callData == JsonParse(SubSeq(text, m[1], m[2]))
             IN  IF callData.threw THEN <<>>
                 ELSE <<[name |-> Field(callData.value, "function"),
                         arguments |-> Field(callData.value, "arguments")]>>
                      \o ScanCalls_StopAtMalformed(text, m[2] + 1)

\* toolExecutor.js:244-254, the scan from lastIndex on
RECURSIVE ScanCalls(_, _)
ScanCalls(text, lastIndex) ==
    LET m == RegexExec(text, lastIndex)
    IN  IF m[1] = 0 THEN <<>>
        ELSE LET callData == JsonParse(SubSeq(text, m[1], m[2]))
                 rest == ScanCalls(text, m[2] + 1)
             IN  IF callData.threw THEN rest
                 ELSE <<[name |-> Field(callData.value, "function"),
                         arguments |-> Field(callData.value, "arguments")]>> \o rest

\* the scan without the try/catch around JSON.parse dropping the match: a match
\* that does not parse is kept as a call without name and arguments
RECURSIVE ScanCalls_KeepMalformed(_, _)
ScanCalls_KeepMalformed(text, lastIndex) ==
    LET m == RegexExec(text, lastIndex)
    IN  IF m[1] = 0 THEN <<>>
        ELSE LET callData == JsonParse(SubSeq(text, m[1], m[2]))
                 rest == ScanCalls_KeepMalformed(text, m[2] + 1)
             IN  IF callData.threw
                 THEN <<[name |-> Undefined, arguments |-> Undefined]>> \o rest
                 ELSE <<[name |-> Field(callData.value, "function"),
                         arguments |-> Field(callData.value, "arguments")]>> \o rest

parseFunctionCalls_KeepMalformed(text) == ScanCalls_KeepMalformed(text, 1)

parseFunctionCalls(text) == ScanCalls(text, 1)

(***************************************************************************)
(* JSON.stringify of a tool result, and the transcript turns               *)
(***************************************************************************)
FieldOrder == <<"success", "error", "message", "toolName", "output", "expression",
                "result", "analysis_type", "count", "sum", "min", "max", "range",
                "statusText", "isoUtc", "uuid", "text">>
BoolFields == {"success", "error"}
NumberFields == {"result", "count", "sum", "min", "max", "range"}
ValueFields == {"expression", "text"}

\* the tokens of the members of v from position i of FieldOrder on; a member
\* whose value is undefined is left out
RECURSIVE JsonMembersOf(_, _)
JsonMembersOf(v, i) ==
    IF i > Len(FieldOrder) THEN <<>>
    ELSE LET key == FieldOrder[i]
             rest == JsonMembersOf(v, i + 1)
         IN  IF key \notin DOMAIN v THEN rest
             ELSE IF key \in ValueFields /\ v[key].type # "string" THEN rest
             ELSE <<Quote(key), ":",
                    CASE key \in BoolFields -> (IF v[key] THEN "true" ELSE "false")
                      [] key \in NumberFields -> ToString(v[key])
                      [] key \in ValueFields -> Quote(v[key].str)
                      [] OTHER -> Quote(v[key]),
                    ",">> \o rest

\* JSON.stringify(toolResult, null, 2): a BigInt inside the value throws a TypeError
JsonStringify(v) ==
    IF "bigint" \in DOMAIN v
    THEN Throw(Err("Do not know how to serialize a BigInt"))
    ELSE IF v.type # "object" THEN Return(<<v.type>>)
    ELSE Return(<<"{">> \o JsonMembersOf(v, 1) \o <<"}">>)

Turn(role, text) == [role |-> role, text |-> text]

\* agentExecutor.js:112-117
ResultMessage(call, toolResult) ==
    LET json == JsonStringify(toolResult)
    IN  IF json.threw THEN json
        ELSE Return(Turn("user",
                <<"Tool \"" \o call.name.str \o "\" execution result:\n">> \o json.value
                \o <<"\n\nPlease continue with the task using this information.">>))

\* agentExecutor.js:104-109
ExecutionRecord(iter, call, toolResult) ==
    [iteration |-> iter, tool |-> call.name, arguments |-> call.arguments,
     result |-> toolResult]

(***************************************************************************)
(* The model gateway                                                       *)
(***************************************************************************)
Text(tokens) == [type |-> "string", text |-> tokens]

(***************************************************************************)
(* Generation parameters.  A number is Num(literal), a string Str(text).   *)
(***************************************************************************)
Num(lit) == [type |-> "number", lit |-> lit]
NaN == Num("NaN")

\* ToBoolean, as the operator || applies it
Truthy(v) ==
    CASE v.type \in {"undefined", "null"} -> FALSE
      [] v.type = "number" -> v.lit \notin {"0", "NaN"}
      [] v.type = "string" -> v.str # ""
      [] OTHER -> TRUE

\* a || b
Or(a, b) == IF Truthy(a) THEN a ELSE b

\* parseFloat(value) on the literals the model uses
parseFloat(v) ==
    CASE v.type = "number" -> v
      [] v.type = "string" ->
            (CASE v.str \in {"0", "0.0"} -> Num("0")
               [] v.str = "0.2" -> Num("0.2")
               [] v.str = "0.5" -> Num("0.5")
               [] v.str = "1" -> Num("1")
               [] v.str = "10" -> Num("10")
               [] v.str = "2048" -> Num("2048")
               [] OTHER -> NaN)
      [] OTHER -> NaN

\* key.toLowerCase() on the keys the model uses
toLowerCase(key) ==
    CASE key = "maxTokens" -> "maxtokens"
      [] key = "topP" -> "topp"
      [] key = "TopK" -> "topk"
      [] OTHER -> key

\* agentExecutor.js:293-298
paramMapping ==
    [temperature |-> "temperature", maxtokens |-> "maxOutputTokens",
     topp |-> "topP", topk |-> "topK"]

\* Object.entries(customParams): the keys in insertion order
EntryOrder == <<"temperature", "maxTokens", "topP", "TopK", "tone">>

\* agentExecutor.js:300-305, the forEach from entry i on
RECURSIVE ExtractEntries(_, _, _)
ExtractEntries(params, i, geminiParams) ==
    IF i > Len(EntryOrder) THEN geminiParams
    ELSE LET key == EntryOrder[i]
         IN  IF key \in DOMAIN params /\ toLowerCase(key) \in DOMAIN paramMapping
             THEN ExtractEntries(params, i + 1,
                      (paramMapping[toLowerCase(key)] :> Or(parseFloat(params[key]), params[key]))
                      @@ geminiParams)
             ELSE ExtractEntries(params, i + 1, geminiParams)

\* agentExecutor.js:290-308
extractGeminiParameters(params) == ExtractEntries(params, 1, EmptyObject)

\* agentExecutor.js:248-253
GenerationConfig(geminiParams) ==
    [temperature |-> Or(Field(geminiParams, "temperature"), Num("0.7")),
     topK |-> Or(Field(geminiParams, "topK"), Num("40")),
     topP |-> Or(Field(geminiParams, "topP"), Num("0.95")),
     maxOutputTokens |-> Or(Field(geminiParams, "maxOutputTokens"), Num("8000"))]

(***************************************************************************)
(* The request: agentExecutor.js:212-254                                   *)
(***************************************************************************)
ToolsHeader == "\n\n=== AVAILABLE TOOLS ===\n"
ToolsFooter == "===================\n"

FieldText(tool, field) == IF field \in DOMAIN tool THEN tool[field] ELSE "undefined"

\* agentExecutor.js:219-231, the entries of the tools from position i on
RECURSIVE ToolEntries(_, _)
ToolEntries(tools, i) ==
    IF i > Len(tools) THEN <<>>
    ELSE <<"Tool: " \o tools[i].name \o "\n",
           "Description: " \o FieldText(tools[i], "description") \o "\n",
           "Returns: " \o FieldText(tools[i], "returnType") \o "\n\n">>
         \o ToolEntries(tools, i + 1)

\* agentExecutor.js:213-235: the tools catalog, empty when no tool resolved
ToolsInstruction(tools) ==
    IF Len(tools) > 0
    THEN <<ToolsHeader>> \o ToolEntries(tools, 1) \o <<ToolsFooter>>
    ELSE <<>>

\* the catalog appended to every user-origin turn of the request
RequestContents_EveryUserTurn(history, tools) ==
    [i \in 1..Len(history) |->
        IF history[i].role = "user"
        THEN [history[i] EXCEPT !.text = @ \o ToolsInstruction(tools)]
        ELSE history[i]]

\* agentExecutor.js:238-244: a copy of the transcript, the catalog appended to turn 1
RequestContents(history, tools) ==
    IF Len(tools) > 0 /\ Len(history) > 0
    THEN [i \in 1..Len(history) |->
            IF i = 1 THEN [history[1] EXCEPT !.text = @ \o ToolsInstruction(tools)]
            ELSE history[i]]
    ELSE history

\* agentExecutor.js:246-254
RequestBody(history, geminiParams, tools) ==
    [contents |-> RequestContents(history, tools),
     generationConfig |-> GenerationConfig(geminiParams)]

NoRequest == [contents |-> <<>>, generationConfig |-> GenerationConfig(EmptyObject)]

Resp(fetch, ok, errorMessage, candidates, blockReason, hasContent, text) ==
    [fetch |-> fetch, ok |-> ok, errorMessage |-> errorMessage, candidates |-> candidates,
     blockReason |-> blockReason, hasContent |-> hasContent, text |-> text]

\* agentExecutor.js:256-285: what callGeminiAPI makes of the backend's response
callGeminiAPI(resp) ==
    IF resp.fetch = "fail" THEN Throw(Err("Failed to fetch"))
    ELSE IF ~resp.ok
    THEN Throw(Err(IF resp.errorMessage # "" THEN resp.errorMessage
                   ELSE "Gemini API request failed"))
    ELSE IF resp.candidates = 0
    THEN (IF resp.blockReason # ""
          THEN Throw(Err("Content blocked: " \o resp.blockReason))
          ELSE Throw(Err("API returned no candidates")))
    ELSE IF ~resp.hasContent THEN Throw(Err("API response missing content"))
    ELSE Return([type |-> "object", text |-> resp.text])

\* the test for a missing text only: an empty string passes
InvalidResponse_MissingOnly(response) == response.text.type # "string"

\* !response || !response.text
InvalidResponse(response) ==
    \/ response.text.type # "string"
    \/ response.text.text = <<>>

(***************************************************************************)
(* The inputs of a run                                                     *)
(***************************************************************************)
Call(name, args) ==
    <<"{", Quote("function"), ":", Quote(name), ",", Quote("arguments"), ":">> \o args \o <<"}">>

TextDone == <<"The", "answer", "is", "4.">>
TextBraces == <<"Use", "{", "braces", "}", "freely.">>
TextOne ==
    <<"Let", "me", "compute.">>
    \o Call("calculator", <<"{", Quote("expression"), ":", Quote("2 + 2"), "}">>)
TextTwo ==
    Call("my_tool", <<"{", "}">>) \o <<"and", "then">>
    \o Call("ghost", <<"{", Quote("text"), ":", Quote("hi"), "}">>)

\* the argument object written as the tools instruction shows it, keys unquoted
TextMalformed ==
    <<"I", "call">> \o Call("calculator", <<"{", "expression", ":", "2", "}">>)

ReplyTexts == {TextDone, TextBraces, TextMalformed, TextOne, TextTwo}

BackendResponses ==
    {Resp("fail", FALSE, "", 0, "", FALSE, Undefined),
     Resp("ok", FALSE, "Quota exceeded", 0, "", FALSE, Undefined),
     Resp("ok", FALSE, "", 0, "", FALSE, Undefined),
     Resp("ok", TRUE, "", 0, "SAFETY", FALSE, Undefined),
     Resp("ok", TRUE, "", 0, "", FALSE, Undefined),
     Resp("ok", TRUE, "", 1, "", FALSE, Undefined),
     Resp("ok", TRUE, "", 1, "", TRUE, Undefined),
     Resp("ok", TRUE, "", 1, "", TRUE, Text(<<>>))}
    \cup {Resp("ok", TRUE, "", 1, "", TRUE, Text(t)) : t \in ReplyTexts}

Envs == {[network |-> "ok", now |-> "2026-01-01T00:00:00.000Z", uuid |-> "uuid-1"],
         [network |-> "fail", now |-> "2026-01-01T00:00:01.000Z", uuid |-> "uuid-2"]}

Tool(id, name) == [id |-> id, name |-> name]
ToolWithCode(id, name, body) == [id |-> id, name |-> name, codeImplementation |-> body]

\* the tool store and the agent's tool identifiers, as the run finds them
Scenarios ==
    {[store |-> {Tool("t1", "calculator"), ToolWithCode("t2", "my_tool", <<FnReturn>>)},
      tools |-> <<"t1", "t2">>],
     [store |-> {ToolWithCode("t1", "calculator", <<" ", "\n">>),
                 ToolWithCode("t2", "my_tool", <<" ", FnThrow, "\n">>),
                 Tool("t3", "ghost")},
      tools |-> <<"t1", "t2", "t3">>],
     [store |-> {ToolWithCode("t1", "calculator", <<FnUseArgs>>),
                 ToolWithCode("t2", "my_tool", <<StmtPlain>>),
                 ToolWithCode("t3", "ghost", <<FnThrowNull>>)},
      tools |-> <<"t3", "t2", "t1">>],
     [store |-> {ToolWithCode("t2", "my_tool", <<FnBigInt>>),
                 ToolWithCode("t3", "ghost", <<FnReturn>>),
                 Tool("t4", "uuid_generator")},
      tools |-> <<"t2", "t3">>],
     [store |-> {ToolWithCode("t1", "calculator", <<>>),
                 ToolWithCode("t3", "ghost", <<StmtSyntax>>)},
      tools |-> <<"t9", "t1", "t3">>],
     [store |-> {Tool("t1", "calculator")},
      tools |-> <<"t8", "t9">>]}

UserInput == "What is 2 + 2?"

(***************************************************************************)
(* Set-up of a run: agentExecutor.js:23-40                                 *)
(***************************************************************************)
\* indexedDB.js getToolById: the stored definition, or undefined
HasTool(store, id) == \E t \in store : t.id = id
getToolById(store, id) == CHOOSE t \in store : t.id = id

\* the resolution without the filter at line 203: a missing tool stays as undefined
RECURSIVE ResolveIds_NoFilter(_, _)
ResolveIds_NoFilter(store, ids) ==
    IF ids = <<>> THEN <<>>
    ELSE <<IF HasTool(store, Head(ids)) THEN getToolById(store, Head(ids)) ELSE Undefined>>
         \o ResolveIds_NoFilter(store, Tail(ids))

\* agentExecutor.js:194-204
RECURSIVE ResolveIds(_, _)
ResolveIds(store, ids) ==
    IF ids = <<>> THEN <<>>
    ELSE (IF HasTool(store, Head(ids)) THEN <<getToolById(store, Head(ids))>> ELSE <<>>)
         \o ResolveIds(store, Tail(ids))

\* every tool of the store handed to the run, whatever the agent lists
loadAgentTools_WholeStore(ag, store) ==
    ResolveIds(store, <<"t1", "t2", "t3", "t4">>)

loadAgentTools(ag, store) ==
    IF ag.tools = <<>> THEN <<>> ELSE ResolveIds(store, ag.tools)

\* agentExecutor.js:152-189, without context parameters and retrieved documents
buildSystemPrompt(ag) ==
    <<"You are a " \o ag.role \o ".", "Your goal is: " \o ag.goal>>

\* agentExecutor.js:37-40
InitialMessage(ag, userInput) ==
    Turn("user", buildSystemPrompt(ag) \o <<"\n\n---\n\nUser Request: " \o userInput>>)

NoOutcome == Return(Undefined)
NoResult == [success |-> FALSE]

ToolIdle ==
    /\ tTool = Tool("t0", "idle")
    /\ tArgs = Undefined
    /\ tEnv = CHOOSE e \in Envs : e.network = "ok"
    /\ tOut = NoOutcome
    /\ tPath = "none"
    /\ tPc = "idle"

ParseIdle ==
    /\ pText = <<>>
    /\ pCalls = <<>>
    /\ pPc = "idle"

ParamsIdle ==
    /\ customParams = EmptyObject
    /\ generationConfig = GenerationConfig(EmptyObject)
    /\ gPc = "idle"

RagIdle ==
    /\ ragAgent = [tools |-> <<>>, ragEnabled |-> FALSE]
    /\ ragSearch = Return(<<>>)
    /\ ragBackend = Resp("ok", TRUE, "", 1, "", TRUE, Text(TextDone))
    /\ searchCalls = 0
    /\ systemPrompt = <<>>
    /\ ragOutcome = NoOutcome
    /\ ragPc = "idle"

StoreIdle ==
    /\ exportFile = <<>>
    /\ deleted = {}
    /\ sPc = "idle"

TwoIdle == runs = <<>>

BootIdle ==
    /\ bStore = {}
    /\ bGone = {}
    /\ bFirst = {}
    /\ bRun = 0
    /\ bPc = "idle"

DeleteIdle ==
    /\ dAgents = {}
    /\ dWorkflows = {}
    /\ dTarget = ""
    /\ dPc = "idle"

ExtraIdle == TwoIdle /\ BootIdle /\ DeleteIdle

LogIdle ==
    /\ runOutcome = NoOutcome
    /\ runInput = [input |-> "", params |-> EmptyObject, model |-> ""]
    /\ executionLogs = <<>>
    /\ sinkWrites = <<>>
    /\ shownError = ""
    /\ hPc = "idle"

Init ==
    /\ \E sc \in Scenarios :
          /\ toolStore = sc.store
          /\ agent = [role |-> "analyst", goal |-> "answer", tools |-> sc.tools]
    /\ agentTools = loadAgentTools(agent, toolStore)
    /\ conversationHistory = <<InitialMessage(agent, UserInput)>>
    /\ toolExecutionLog = <<>>
    /\ iteration = 0
    /\ functionCalls = <<>>
    /\ callIdx = 0
    /\ result = NoResult
    /\ exit = "none"
    /\ agentOutcome = NoOutcome
    /\ gatewayRequests = 0
    /\ invocations = <<>>
    /\ lastReply = <<>>
    /\ requestBody = NoRequest
    /\ pc = "loop"
    /\ ToolIdle /\ ParseIdle /\ ParamsIdle /\ RagIdle /\ StoreIdle /\ LogIdle
    /\ ExtraIdle

(***************************************************************************)
(* The conversation loop: agentExecutor.js:43-147                          *)
(***************************************************************************)
MAX_ITERATIONS == 10

MaxIterationsMessage == "Max iterations reached. Task may be incomplete."

\* agentExecutor.js:75-81
DoneResult(text, iter, log, history) ==
    [success |-> TRUE, result |-> Text(text), iterations |-> iter,
     toolExecutions |-> log, conversationHistory |-> history]

\* the failure result carrying the last turn's text, as the exhausted result does
FailedResult_LastText(message, iter, log, history) ==
    [success |-> FALSE, error |-> message,
     result |-> IF history = <<>> THEN Null ELSE Text(history[Len(history)].text),
     iterations |-> iter, toolExecutions |-> log, conversationHistory |-> history]

\* agentExecutor.js:125-132
FailedResult(message, iter, log, history) ==
    [success |-> FALSE, error |-> message, result |-> Null, iterations |-> iter,
     toolExecutions |-> log, conversationHistory |-> history]

\* agentExecutor.js:142  conversationHistory[length - 1]?.parts[0]?.text || null
LastTurnText(history) ==
    IF history = <<>> \/ history[Len(history)].text = <<>> THEN Null
    ELSE Text(history[Len(history)].text)

\* agentExecutor.js:139-146
ExhaustedResult(iter, log, history) ==
    [success |-> FALSE, error |-> MaxIterationsMessage, result |-> LastTurnText(history),
     iterations |-> iter, toolExecutions |-> log, conversationHistory |-> history]

\* the lookup taking any named call for the tool at hand
Matches_IgnoringName(tool, call) == call.name.type = "string"

\* agentExecutor.js:91  agentTools.find(t => t.name === call.name)
Matches(tool, call) == call.name.type = "string" /\ call.name.str = tool.name
ToolFound(tools, call) == \E i \in 1..Len(tools) : Matches(tools[i], call)
FindTool(tools, call) ==
    tools[CHOOSE i \in 1..Len(tools) :
            /\ Matches(tools[i], call)
            /\ \A j \in 1..(i - 1) : ~Matches(tools[j], call)]

\* the catch block at agentExecutor.js:122-133
Fail(message, log, history) ==
    /\ result' = FailedResult(message, iteration, log, history)
    /\ exit' = "FAILED"
    /\ pc' = "returned"

\* the end of one turn of the for..of loop: the next call, or back to the while test
Advance ==
    /\ callIdx' = callIdx + 1
    /\ pc' = IF callIdx + 1 > Len(functionCalls) THEN "loop" ELSE "forCalls"

\* the request built in the transcript itself instead of in a copy of it
StartPass_InPlace ==
    /\ pc = "loop"
    /\ iteration < MAX_ITERATIONS
    /\ iteration' = iteration + 1
    /\ gatewayRequests' = gatewayRequests + 1
    /\ requestBody' = RequestBody(conversationHistory,
                                  extractGeminiParameters(customParams), agentTools)
    /\ conversationHistory' = RequestContents(conversationHistory, agentTools)
    /\ pc' = "awaitGateway"
    /\ UNCHANGED <<agent, toolStore, agentTools, toolExecutionLog,
                   functionCalls, callIdx, result, exit, agentOutcome, invocations,
                   lastReply>>
    /\ UNCHANGED sideVars

\* agentExecutor.js:43-55: the while test, iteration++, and the request is sent
StartPass ==
    /\ pc = "loop"
    /\ iteration < MAX_ITERATIONS
    /\ iteration' = iteration + 1
    /\ gatewayRequests' = gatewayRequests + 1
    /\ requestBody' = RequestBody(conversationHistory,
                                  extractGeminiParameters(customParams), agentTools)
    /\ pc' = "awaitGateway"
    /\ UNCHANGED <<agent, toolStore, agentTools, conversationHistory, toolExecutionLog,
                   functionCalls, callIdx, result, exit, agentOutcome, invocations,
                   lastReply>>
    /\ UNCHANGED sideVars

\* a failed request sent once more before the pass gives up
GatewayThrows_Retry ==
    /\ pc = "awaitGateway"
    /\ \E resp \in BackendResponses :
          LET out == callGeminiAPI(resp)
          IN  /\ out.threw
              /\ IF gatewayRequests = iteration
                 THEN /\ gatewayRequests' = gatewayRequests + 1
                      /\ UNCHANGED <<result, exit, pc>>
                 ELSE /\ Fail(out.error.message, toolExecutionLog, conversationHistory)
                      /\ UNCHANGED gatewayRequests
    /\ UNCHANGED <<requestBody, agent, toolStore, agentTools, iteration, conversationHistory,
                   toolExecutionLog, functionCalls, callIdx, agentOutcome,
                   invocations, lastReply>>
    /\ UNCHANGED sideVars

\* callGeminiAPI throws: agentExecutor.js:264-280, caught at 122
GatewayThrows ==
    /\ pc = "awaitGateway"
    /\ \E resp \in BackendResponses :
          LET out == callGeminiAPI(resp)
          IN  /\ out.threw
              /\ Fail(out.error.message, toolExecutionLog, conversationHistory)
    /\ UNCHANGED <<requestBody, agent, toolStore, agentTools, iteration, conversationHistory,
                   toolExecutionLog, functionCalls, callIdx, agentOutcome,
                   gatewayRequests, invocations, lastReply>>
    /\ UNCHANGED sideVars

\* callGeminiAPI returns: agentExecutor.js:57-85
GatewayReplies ==
    /\ pc = "awaitGateway"
    /\ \E resp \in BackendResponses :
          LET out == callGeminiAPI(resp)
          IN  /\ ~out.threw
              /\ IF InvalidResponse(out.value)
                 THEN /\ Fail("Invalid response from LLM", toolExecutionLog,
                              conversationHistory)
                      /\ UNCHANGED <<conversationHistory, functionCalls, callIdx,
                                     invocations, lastReply>>
                 ELSE LET text == out.value.text.text
                          history == Append(conversationHistory, Turn("model", text))
                          calls == parseFunctionCalls(text)
                      IN  /\ conversationHistory' = history
                          /\ lastReply' = text
                          /\ functionCalls' = calls
                          /\ invocations' = <<>>
                          /\ IF Len(calls) = 0
                             THEN /\ result' = DoneResult(text, iteration,
                                                          toolExecutionLog, history)
                                  /\ exit' = "DONE"
                                  /\ pc' = "returned"
                                  /\ callIdx' = 0
                             ELSE /\ pc' = "forCalls"
                                  /\ callIdx' = 1
                                  /\ UNCHANGED <<result, exit>>
    /\ UNCHANGED <<requestBody, agent, toolStore, agentTools, iteration, toolExecutionLog,
                   agentOutcome, gatewayRequests>>
    /\ UNCHANGED sideVars

\* the lookup's miss treated as an error of the pass
SkipCall_Fatal ==
    /\ pc = "forCalls"
    /\ ~ToolFound(agentTools, functionCalls[callIdx])
    /\ Fail("Tool not found", toolExecutionLog, conversationHistory)
    /\ UNCHANGED <<requestBody, agent, toolStore, agentTools, iteration, conversationHistory,
                   toolExecutionLog, functionCalls, callIdx, agentOutcome,
                   gatewayRequests, invocations, lastReply>>
    /\ UNCHANGED sideVars

\* agentExecutor.js:91-96: the named tool is not in the agent's set
SkipCall ==
    /\ pc = "forCalls"
    /\ ~ToolFound(agentTools, functionCalls[callIdx])
    /\ Advance
    /\ UNCHANGED <<requestBody, agent, toolStore, agentTools, iteration, conversationHistory,
                   toolExecutionLog, functionCalls, result, exit, agentOutcome,
                   gatewayRequests, invocations, lastReply>>
    /\ UNCHANGED sideVars

\* executeTool called without awaiting it: the loop moves on at once
InvokeTool_NoAwait ==
    /\ pc = "forCalls"
    /\ ToolFound(agentTools, functionCalls[callIdx])
    /\ invocations' = Append(invocations,
                             [tool |-> FindTool(agentTools, functionCalls[callIdx]),
                              arguments |-> functionCalls[callIdx].arguments])
    /\ Advance
    /\ UNCHANGED <<requestBody, agent, toolStore, agentTools, iteration, conversationHistory,
                   toolExecutionLog, functionCalls, result, exit, agentOutcome,
                   gatewayRequests, lastReply>>
    /\ UNCHANGED sideVars

\* agentExecutor.js:99: executeTool is called and awaited
InvokeTool ==
    /\ pc = "forCalls"
    /\ ToolFound(agentTools, functionCalls[callIdx])
    /\ invocations' = Append(invocations,
                             [tool |-> FindTool(agentTools, functionCalls[callIdx]),
                              arguments |-> functionCalls[callIdx].arguments])
    /\ pc' = "awaitTool"
    /\ UNCHANGED <<requestBody, agent, toolStore, agentTools, iteration, conversationHistory,
                   toolExecutionLog, functionCalls, callIdx, result, exit, agentOutcome,
                   gatewayRequests, lastReply>>
    /\ UNCHANGED sideVars

\* agentExecutor.js:99-120: executeTool settles, the record and the turn are appended
ToolReturns ==
    /\ pc = "awaitTool"
    /\ \E env \in Envs :
          LET call == functionCalls[callIdx]
              out == executeTool(FindTool(agentTools, call), call.arguments, env).out
          IN  IF out.threw
              THEN /\ Fail(out.error.message, toolExecutionLog, conversationHistory)
                   /\ UNCHANGED <<toolExecutionLog, conversationHistory, callIdx>>
              ELSE LET log == Append(toolExecutionLog,
                                     ExecutionRecord(iteration, call, out.value))
                       message == ResultMessage(call, out.value)
                   IN  /\ toolExecutionLog' = log
                       /\ IF message.threw
                          THEN /\ Fail(message.error.message, log, conversationHistory)
                               /\ UNCHANGED <<conversationHistory, callIdx>>
                          ELSE /\ conversationHistory' =
                                      Append(conversationHistory, message.value)
                               /\ Advance
                               /\ UNCHANGED <<result, exit>>
    /\ UNCHANGED <<requestBody, agent, toolStore, agentTools, iteration, functionCalls, agentOutcome,
                   gatewayRequests, invocations, lastReply>>
    /\ UNCHANGED sideVars

\* agentExecutor.js:136-146: the while test fails
Exhausted ==
    /\ pc = "loop"
    /\ ~(iteration < MAX_ITERATIONS)
    /\ result' = ExhaustedResult(iteration, toolExecutionLog, conversationHistory)
    /\ exit' = "EXHAUSTED"
    /\ pc' = "returned"
    /\ UNCHANGED <<requestBody, agent, toolStore, agentTools, iteration, conversationHistory,
                   toolExecutionLog, functionCalls, callIdx, agentOutcome,
                   gatewayRequests, invocations, lastReply>>
    /\ UNCHANGED sideVars

(***************************************************************************)
(* The caller of the loop: llmService.js:49-77                             *)
(***************************************************************************)
\* llmService.js:63-70
RECURSIVE SummaryLines(_, _)
SummaryLines(log, i) ==
    IF i > Len(log) THEN <<>>
    ELSE <<"  " \o ToString(i) \o ". " \o log[i].tool.str \o
           " (iteration " \o ToString(log[i].iteration) \o ")\n">>
         \o SummaryLines(log, i + 1)

ExecutionSummary(res) ==
    IF Len(res.toolExecutions) = 0 THEN <<>>
    ELSE <<"\n\n---\n**Execution Summary:**\n",
           "- Iterations: " \o ToString(res.iterations) \o "\n",
           "- Tools Used: " \o ToString(Len(res.toolExecutions)) \o "\n">>
         \o SummaryLines(res.toolExecutions, 1)

\* llmService.js:52-76: what executeAgent returns or throws for the loop's result
executeAgent(res) ==
    IF ~res.success
    THEN Throw(Err("Failed to execute agent with tools: " \o
                   (IF res.error # "" THEN res.error ELSE "Agent execution failed")))
    ELSE Return(Text(res.result.text \o ExecutionSummary(res)))

ExecuteAgentReturns ==
    /\ pc = "returned"
    /\ agentOutcome' = executeAgent(result)
    /\ pc' = "finished"
    /\ UNCHANGED <<requestBody, agent, toolStore, agentTools, iteration, conversationHistory,
                   toolExecutionLog, functionCalls, callIdx, result, exit,
                   gatewayRequests, invocations, lastReply>>
    /\ UNCHANGED sideVars

Next ==
    \/ StartPass
    \/ GatewayThrows
    \/ GatewayReplies
    \/ SkipCall
    \/ InvokeTool
    \/ ToolReturns
    \/ Exhausted
    \/ ExecuteAgentReturns

Spec == Init /\ [][Next]_vars

(***************************************************************************)
(* One call of executeTool on every tool definition and argument bag       *)
(***************************************************************************)
ToolNames == BuiltinNames \cup {"my_tool", "ghost"}

Bodies == {<<>>, <<" ">>, <<"\n", " ", "\t">>, <<FnReturn>>, <<" ", FnThrow, "\n">>,
           <<FnThrowNull>>, <<FnBigInt>>, <<FnUseArgs>>, <<StmtPlain>>, <<StmtSyntax>>,
           <<StmtPlain, FnReturn>>, <<StmtReturnFn>>, <<StmtPlain, StmtReturnValue>>,
           <<StmtThrow>>, <<StmtConstExecute>>, <<StmtReturnFn, FnThrow>>}

ToolDefinitions ==
    {Tool("t1", n) : n \in ToolNames}
    \cup {ToolWithCode("t1", n, b) : n \in ToolNames, b \in Bodies}

ArgumentBags ==
    {Undefined, Null, EmptyObject,
     [type |-> "object", expression |-> Str("2 + 2")],
     [type |-> "object", expression |-> Str("abc")],
     [type |-> "object", expression |-> Str("2 + 2; alert(1)")],
     [type |-> "object", expression |-> Str("2 * 3(4)")],
     [type |-> "object", expression |-> Str("2 +")],
     [type |-> "object", text |-> Str("hi")]}

RunIdle ==
    /\ toolStore = {}
    /\ agent = [role |-> "analyst", goal |-> "answer", tools |-> <<>>]
    /\ agentTools = <<>>
    /\ conversationHistory = <<>>
    /\ toolExecutionLog = <<>>
    /\ iteration = 0
    /\ functionCalls = <<>>
    /\ callIdx = 0
    /\ result = NoResult
    /\ exit = "none"
    /\ agentOutcome = NoOutcome
    /\ gatewayRequests = 0
    /\ invocations = <<>>
    /\ lastReply = <<>>
    /\ requestBody = NoRequest
    /\ pc = "idle"

InitTool ==
    /\ tTool \in ToolDefinitions
    /\ tArgs \in ArgumentBags
    /\ tEnv \in Envs
    /\ tOut = NoOutcome
    /\ tPath = "none"
    /\ tPc = "call"
    /\ RunIdle /\ ParseIdle /\ ParamsIdle /\ RagIdle /\ StoreIdle /\ LogIdle
    /\ ExtraIdle

\* await executeTool(tTool, tArgs)
ToolCall ==
    /\ tPc = "call"
    /\ tOut' = executeTool(tTool, tArgs, tEnv).out
    /\ tPath' = executeTool(tTool, tArgs, tEnv).path
    /\ tPc' = "done"
    /\ UNCHANGED <<tTool, tArgs, tEnv>>
    /\ UNCHANGED <<runVars, parseVars, paramVars, ragVars, storeVars, logVars, extraVars>>

NextTool == ToolCall

SpecTool == InitTool /\ [][NextTool]_vars

(***************************************************************************)
(* One call of parseFunctionCalls on every text made of up to MaxSegments  *)
(* segments: prose, prose holding braces, well-formed calls, a call with   *)
(* a nested argument object, and a call written with unquoted keys.        *)
(***************************************************************************)
MaxSegments == 3

SegProse == <<"Let", "me", "compute.">>
SegBraces == <<"Use", "{", "x", "}">>
SegOpenBrace == <<"{">>
SegCallA == Call("calculator", <<"{", Quote("expression"), ":", Quote("2 + 2"), "}">>)
SegCallB == Call("my_tool", <<"{", "}">>)
SegNested == Call("ghost", <<"{", Quote("text"), ":", "{", "}", "}">>)
SegMalformed == Call("calculator", <<"{", "expression", ":", "2", "}">>)

Segments == {SegProse, SegBraces, SegOpenBrace, SegCallA, SegCallB, SegNested, SegMalformed}

RECURSIVE Flatten(_)
Flatten(segs) == IF segs = <<>> THEN <<>> ELSE Head(segs) \o Flatten(Tail(segs))

ParserTexts ==
    {Flatten(segs) : segs \in UNION {[1..n -> Segments] : n \in 1..MaxSegments}}

InitParse ==
    /\ pText \in ParserTexts
    /\ pCalls = <<>>
    /\ pPc = "call"
    /\ RunIdle /\ ToolIdle /\ ParamsIdle /\ RagIdle /\ StoreIdle /\ LogIdle
    /\ ExtraIdle

\* parseFunctionCalls(pText)
ParseCall ==
    /\ pPc = "call"
    /\ pCalls' = parseFunctionCalls(pText)
    /\ pPc' = "done"
    /\ UNCHANGED pText
    /\ UNCHANGED <<runVars, toolVars, paramVars, ragVars, storeVars, logVars, extraVars>>

NextParse == ParseCall

SpecParse == InitParse /\ [][NextParse]_vars

(***************************************************************************)
(* The tool store: deletion (ToolsView handleDelete), export               *)
(* (exportImportService exportAgent), import (ImportWorkflowModal          *)
(* handleImport, indexedDB saveTool), and the start of a run.              *)
(***************************************************************************)
MaxImports == 2

ParamText == [name |-> "text", type |-> "string", description |-> "The text", required |-> TRUE]

StoreToolA ==
    [id |-> "t1", name |-> "my_tool", description |-> "Echo the text",
     parameters |-> <<ParamText>>, returnType |-> "object",
     codeImplementation |-> <<FnUseArgs>>, isBuiltIn |-> FALSE,
     createdAt |-> "2026-01-01T00:00:00.000Z", implementation |-> "Echoes its input"]
StoreToolB ==
    [id |-> "t2", name |-> "ghost", description |-> "Constant",
     parameters |-> <<>>, returnType |-> "string",
     codeImplementation |-> <<" ", FnReturn, "\n">>, isBuiltIn |-> FALSE,
     createdAt |-> "2026-01-02T00:00:00.000Z", updatedAt |-> "2026-01-03T00:00:00.000Z"]
StoreToolC ==
    [id |-> "t3", name |-> "calculator", description |-> "Calculate",
     parameters |-> <<[name |-> "expression", type |-> "string",
                       description |-> "The expression", required |-> TRUE]>>,
     returnType |-> "number", isBuiltIn |-> TRUE, isDefault |-> TRUE,
     createdAt |-> "2026-01-01T00:00:00.000Z"]

StoreScenarios ==
    {[store |-> st, tools |-> ids] :
        st \in {{StoreToolA, StoreToolB, StoreToolC}, {StoreToolA, StoreToolC},
                {StoreToolA, StoreToolB}},
        ids \in {<<"t1", "t2", "t3">>, <<"t3", "t1">>, <<"t2", "t9">>}}

ExportTime == "2026-02-01T00:00:00.000Z"
ImportTime == "2026-02-02T00:00:00.000Z"

\* the removal of the keys of a record
Without(rec, keys) == [f \in DOMAIN rec \ keys |-> rec[f]]

\* the drop of the executable body in place of the field implementation
sanitizeTool_DropCode(tool) ==
    ("originalId" :> tool.id) @@ ("exportedAt" :> ExportTime)
    @@ Without(tool, {"createdAt", "updatedAt", "isDefault", "codeImplementation"})

\* exportImportService.js:100-107
sanitizeTool(tool) ==
    ("originalId" :> tool.id) @@ ("exportedAt" :> ExportTime)
    @@ Without(tool, {"createdAt", "updatedAt", "isDefault", "implementation"})

\* the key order of the object store, which getAllTools returns the tools in
IdOrder == <<"t1", "t2", "t3", "t4", "t5", "t6", "uuid-1", "uuid-2", "uuid-3", "uuid-4",
             "uuid-5", "uuid-6", "uuid-7", "uuid-8", "uuid-9", "uuid-10", "uuid-11",
             "uuid-12">>

\* indexedDB.js getAllTools: store.getAll(), the stored tools from key i on
RECURSIVE ToolsInKeyOrder(_, _)
ToolsInKeyOrder(store, i) ==
    IF i > Len(IdOrder) THEN <<>>
    ELSE (IF HasTool(store, IdOrder[i]) THEN <<getToolById(store, IdOrder[i])>> ELSE <<>>)
         \o ToolsInKeyOrder(store, i + 1)

getAllTools(store) == ToolsInKeyOrder(store, 1)

Includes(seq, x) == \E i \in 1..Len(seq) : seq[i] = x

IsDefault(tool) == "isDefault" \in DOMAIN tool /\ tool.isDefault

\* JSON.parse(JSON.stringify(value)) of an exported tool: every field of a stored
\* tool is a string, a boolean or an array of such objects, which JSON keeps; a
\* field that is undefined is absent from the record and from the file alike
JsonRoundTrip(value) == [f \in DOMAIN value |-> value[f]]

\* exportImportService.js:6-25: the custom tools of the agent, sanitized, as the file holds them
exportAgent(ag, tools) ==
    LET agentsTools == SelectSeq(tools, LAMBDA t : Includes(ag.tools, t.id) /\ ~IsDefault(t))
    IN  [i \in 1..Len(agentsTools) |-> JsonRoundTrip(sanitizeTool(agentsTools[i]))]

\* crypto.randomUUID(): an identifier no tool has or had
randomUUID(store, gone) == "uuid-" \o ToString(Cardinality(store) + Cardinality(gone) + 1)

\* indexedDB.js:235-264
saveTool(tool, store, gone) ==
    IF "id" \in DOMAIN tool
    THEN ("updatedAt" :> ImportTime) @@ tool
    ELSE ("id" :> randomUUID(store, gone)) @@ ("createdAt" :> ImportTime) @@ tool

\* ImportWorkflowModal handleImport, lines 41-60: the tools of the file from entry i on
RECURSIVE ImportTools(_, _, _, _)
ImportTools(file, i, store, gone) ==
    IF i > Len(file) THEN store
    ELSE LET toolWithoutId == Without(file[i], {"id", "originalId"})
             savedTool == saveTool(toolWithoutId, store, gone)
         IN  ImportTools(file, i + 1, store \cup {savedTool}, gone)

\* the identifiers import has generated so far, deleted since or not
ImportedIds(store, gone) ==
    {id \in {t.id : t \in store} \cup gone : \E k \in 4..Len(IdOrder) : IdOrder[k] = id}

InitStore ==
    /\ \E sc \in StoreScenarios :
          /\ toolStore = sc.store
          /\ agent = [role |-> "analyst", goal |-> "answer", tools |-> sc.tools]
    /\ agentTools = <<>>
    /\ conversationHistory = <<>>
    /\ toolExecutionLog = <<>>
    /\ iteration = 0
    /\ functionCalls = <<>>
    /\ callIdx = 0
    /\ result = NoResult
    /\ exit = "none"
    /\ agentOutcome = NoOutcome
    /\ gatewayRequests = 0
    /\ invocations = <<>>
    /\ lastReply = <<>>
    /\ requestBody = NoRequest
    /\ pc = "idle"
    /\ exportFile = <<>>
    /\ deleted = {}
    /\ sPc = "manage"
    /\ ToolIdle /\ ParseIdle /\ ParamsIdle /\ RagIdle /\ LogIdle
    /\ ExtraIdle

StoreFrame ==
    UNCHANGED <<iteration, conversationHistory, toolExecutionLog, functionCalls, callIdx,
                result, exit, agentOutcome, gatewayRequests, invocations, lastReply,
                requestBody, toolVars, parseVars, paramVars, ragVars, logVars, extraVars>>

\* ToolsView.jsx:41-66: the dialog is confirmed ("Delete Anyway") or cancelled
HandleDelete ==
    /\ sPc = "manage"
    /\ \E tool \in toolStore, confirmed \in BOOLEAN :
          IF confirmed
          THEN /\ toolStore' = toolStore \ {tool}
               /\ deleted' = deleted \cup {tool.id}
          ELSE UNCHANGED <<toolStore, deleted>>
    /\ UNCHANGED <<agent, agentTools, pc, exportFile, sPc>>
    /\ StoreFrame

\* AgentCard.jsx:19  exportAgent(agent, tools)
ExportAgent ==
    /\ sPc = "manage"
    /\ exportFile' = exportAgent(agent, getAllTools(toolStore))
    /\ UNCHANGED <<toolStore, deleted, agent, agentTools, pc, sPc>>
    /\ StoreFrame

\* ImportWorkflowModal handleImport: every tool of the file is saved under a new identifier
HandleImport ==
    /\ sPc = "manage"
    /\ exportFile # <<>>
    /\ Cardinality(ImportedIds(toolStore, deleted)) + Len(exportFile) <= MaxImports
    /\ toolStore' = ImportTools(exportFile, 1, toolStore, deleted)
    /\ UNCHANGED <<deleted, exportFile, agent, agentTools, pc, sPc>>
    /\ StoreFrame

\* agentExecutor.js:34: a run of the agent starts and resolves its tools
StartRun ==
    /\ sPc = "manage"
    /\ agentTools' = loadAgentTools(agent, toolStore)
    /\ pc' = "loop"
    /\ sPc' = "running"
    /\ UNCHANGED <<toolStore, deleted, exportFile, agent>>
    /\ StoreFrame

NextStore ==
    \/ HandleDelete
    \/ ExportAgent
    \/ HandleImport
    \/ StartRun

SpecStore == InitStore /\ [][NextStore]_vars

(***************************************************************************)
(* The generation parameters of a request, for every bag of custom         *)
(* parameters: agentExecutor.js:31 and 246-254                             *)
(***************************************************************************)
\* a custom parameter, left out of the bag when its value is undefined
Entry(key, value) == IF value = Undefined THEN <<>> ELSE key :> value

ParamBags ==
    {Entry("temperature", t) @@ Entry("maxTokens", m) @@ Entry("topP", p)
       @@ Entry("TopK", k) @@ Entry("tone", c) @@ EmptyObject :
        t \in {Undefined, Num("0"), Str("0"), Num("0.2"), Str("0.5")},
        m \in {Undefined, Num("0"), Num("2048"), Str("2048")},
        p \in {Undefined, Num("0"), Num("1"), Str("0.5")},
        k \in {Undefined, Num("0"), Num("10"), Str("10")},
        c \in {Undefined, Str("formal")}}

InitParams ==
    /\ customParams \in ParamBags
    /\ generationConfig = GenerationConfig(EmptyObject)
    /\ gPc = "call"
    /\ RunIdle /\ ToolIdle /\ ParseIdle /\ RagIdle /\ StoreIdle /\ LogIdle
    /\ ExtraIdle

\* the generationConfig of the request callGeminiAPI builds
BuildRequest ==
    /\ gPc = "call"
    /\ generationConfig' = RequestBody(<<>>, extractGeminiParameters(customParams), <<>>).generationConfig
    /\ gPc' = "done"
    /\ UNCHANGED customParams
    /\ UNCHANGED <<runVars, toolVars, parseVars, ragVars, storeVars, logVars, extraVars>>

NextParams == BuildRequest

SpecParams == InitParams /\ [][NextParams]_vars

(***************************************************************************)
(* Knowledge retrieval on the two paths of executeAgent: the tool loop's   *)
(* buildSystemPrompt (agentExecutor.js:152-189) and the simple single call *)
(* (llmService.js:79-200).                                                 *)
(***************************************************************************)
TypeErr(message) == [isError |-> TRUE, message |-> message, typeError |-> TRUE]

Doc == "Paris is the capital of France."

\* what searchSimilarDocuments does: it rejects, or resolves with the documents found
SearchOutcomes ==
    {Throw(Err("Embedding request failed")), Throw(TypeErr("Failed to fetch")),
     Return(<<>>), Return(<<Doc>>)}

RagAgents ==
    {[role |-> "analyst", goal |-> "answer", tools |-> ids, ragEnabled |-> flag] :
        ids \in {<<>>, <<"t1">>}, flag \in BOOLEAN}

RECURSIVE DocumentLines(_, _)
DocumentLines(docs, i) ==
    IF i > Len(docs) THEN <<>>
    ELSE <<(IF i > 1 THEN "\n\n" ELSE "") \o "[Document " \o ToString(i) \o "] " \o docs[i]>>
         \o DocumentLines(docs, i + 1)

RECURSIVE DocumentBlocks(_, _)
DocumentBlocks(docs, i) ==
    IF i > Len(docs) THEN <<>>
    ELSE <<"\n[Document " \o ToString(i) \o "] " \o docs[i] \o "\n">>
         \o DocumentBlocks(docs, i + 1)

\* agentExecutor.js:167-186: the documents appended to the prompt; the search is
\* called only under the flag and its failure is caught
RagSection(ag, search) ==
    IF ~ag.ragEnabled THEN [calls |-> 0, out |-> Return(<<>>)]
    ELSE IF search.threw THEN [calls |-> 1, out |-> Return(<<>>)]
    ELSE IF Len(search.value) > 0
    THEN [calls |-> 1,
          out |-> Return(<<"\n\nRelevant Knowledge Base Documents:\n">>
                         \o DocumentBlocks(search.value, 1))]
    ELSE [calls |-> 1, out |-> Return(<<>>)]

\* llmService.js:90-106: the same search inside the try block of the simple path,
\* without a catch of its own
SimpleContext(ag, search) ==
    IF ~ag.ragEnabled THEN [calls |-> 0, out |-> Return(<<>>)]
    ELSE IF search.threw THEN [calls |-> 1, out |-> search]
    ELSE IF Len(search.value) > 0
    THEN [calls |-> 1,
          out |-> Return(<<"\n\nRelevant Context:\n">> \o DocumentLines(search.value, 1))]
    ELSE [calls |-> 1, out |-> Return(<<>>)]

\* llmService.js:151-184: the request of the simple path and the reading of the response
SimpleCall(resp) ==
    IF resp.fetch = "fail" THEN Throw(TypeErr("Failed to fetch"))
    ELSE IF ~resp.ok
    THEN Throw(Err(IF resp.errorMessage # "" THEN resp.errorMessage
                   ELSE "Gemini API request failed"))
    ELSE IF resp.candidates = 0
    THEN (IF resp.blockReason # ""
          THEN Throw(Err("Content blocked: " \o resp.blockReason))
          ELSE Throw(Err("API returned no candidates. The content may have been blocked or the response was empty.")))
    ELSE IF ~resp.hasContent
    THEN Throw(Err("API response missing content. This may be due to safety filters."))
    ELSE Return(resp.text)

\* llmService.js:185-200, the catch block of the simple path (the browser is online)
SimpleCatch(e) ==
    IF "typeError" \in DOMAIN e \/ e.message = "Failed to fetch"
    THEN Throw(Err("Failed to execute agent: network error connecting to Gemini API. Check your internet/VPN/proxy and try again."))
    ELSE Throw(Err("Failed to execute agent: " \o e.message))

\* llmService.js:79-200: the simple path, search included
SimpleExecute(ag, search, resp) ==
    LET context == SimpleContext(ag, search)
    IN  [calls |-> context.calls,
         out |-> IF context.out.threw THEN SimpleCatch(context.out.error)
                 ELSE IF SimpleCall(resp).threw THEN SimpleCatch(SimpleCall(resp).error)
                 ELSE SimpleCall(resp)]

InitRag ==
    /\ ragAgent \in RagAgents
    /\ ragSearch \in SearchOutcomes
    /\ ragBackend \in BackendResponses
    /\ searchCalls = 0
    /\ systemPrompt = <<>>
    /\ ragOutcome = NoOutcome
    /\ ragPc = "start"
    /\ RunIdle /\ ToolIdle /\ ParseIdle /\ ParamsIdle /\ StoreIdle /\ LogIdle
    /\ ExtraIdle

RagFrame ==
    /\ UNCHANGED <<ragAgent, ragSearch, ragBackend>>
    /\ UNCHANGED <<runVars, toolVars, parseVars, paramVars, storeVars, logVars, extraVars>>

\* llmService.js:49-53 and agentExecutor.js:28: the agent has tools, the prompt of
\* the loop is built and the run goes on to the loop
BuildPromptForLoop ==
    /\ ragPc = "start"
    /\ Len(ragAgent.tools) > 0
    /\ LET section == RagSection(ragAgent, ragSearch)
       IN  /\ searchCalls' = section.calls
           /\ systemPrompt' = buildSystemPrompt(ragAgent) \o section.out.value
    /\ ragPc' = "loop"
    /\ UNCHANGED ragOutcome
    /\ RagFrame

\* llmService.js:79-200: the agent has no tools
SimpleRun ==
    /\ ragPc = "start"
    /\ Len(ragAgent.tools) = 0
    /\ LET run == SimpleExecute(ragAgent, ragSearch, ragBackend)
       IN  /\ searchCalls' = run.calls
           /\ ragOutcome' = run.out
    /\ systemPrompt' = buildSystemPrompt(ragAgent)
    /\ ragPc' = "finished"
    /\ RagFrame

NextRag ==
    \/ BuildPromptForLoop
    \/ SimpleRun

SpecRag == InitRag /\ [][NextRag]_vars

(***************************************************************************)
(* A run started from RunAgentModal and its execution log: handleRun       *)
(* (RunAgentModal.jsx:195-239) and saveExecutionLog (indexedDB.js:143-152).*)
(* sinkWrites holds the entries handed to saveExecutionLog, executionLogs  *)
(* the entries the store accepted.  The entry's agentId, agentName and     *)
(* runAt are left out.                                                     *)
(***************************************************************************)
\* what `await onRun(...)` does: it resolves with the answer or rejects
RunOutcomes ==
    {Return(Text(TextDone)), Return(Text(TextOne)),
     Throw(Err("Failed to execute agent: Quota exceeded")),
     Throw(Err("Failed to execute agent with tools: Max iterations reached. Task may be incomplete."))}

RunInputs ==
    {[input |-> i, params |-> p, model |-> m] :
        i \in {"", "What is 2 + 2?"},
        p \in {EmptyObject, Entry("temperature", Num("0.2")) @@ EmptyObject,
               Entry("tone", Str("formal")) @@ EmptyObject},
        m \in {"gemini-2.5-flash", "gemini-2.5-pro"}}

\* request.error of a rejected store.add
SinkError == Err("QuotaExceededError")

\* error.message || fallback
MessageOr(e, fallback) == IF e.message = "" THEN fallback ELSE e.message

LogEntry(in, output, status) ==
    [input |-> in.input, output |-> output, params |-> in.params,
     model |-> in.model, status |-> status]

InitLog ==
    /\ runOutcome \in RunOutcomes
    /\ runInput \in RunInputs
    /\ executionLogs = <<>>
    /\ sinkWrites = <<>>
    /\ shownError = ""
    /\ hPc = "run"
    /\ RunIdle /\ ToolIdle /\ ParseIdle /\ ParamsIdle /\ RagIdle /\ StoreIdle
    /\ ExtraIdle

LogFrame ==
    /\ UNCHANGED <<runOutcome, runInput>>
    /\ UNCHANGED <<runVars, toolVars, parseVars, paramVars, ragVars, storeVars, extraVars>>

\* the catch block of handleRun up to its await: the error is shown and an entry
\* with status "error" is handed to the sink
CatchBlock(e) ==
    /\ shownError' = MessageOr(e, "An error occurred")
    /\ sinkWrites' = Append(sinkWrites,
                            LogEntry(runInput, Str(MessageOr(e, "Error occurred")), "error"))
    /\ hPc' = "awaitErrorLog"

\* handleRun from `await onRun` to the next await
RunSettles ==
    /\ hPc = "run"
    /\ IF runOutcome.threw
       THEN CatchBlock(runOutcome.error)
       ELSE /\ sinkWrites' = Append(sinkWrites,
                                    LogEntry(runInput, runOutcome.value, "success"))
            /\ hPc' = "awaitSuccessLog"
            /\ UNCHANGED shownError
    /\ UNCHANGED executionLogs
    /\ LogFrame

\* the saveExecutionLog awaited inside the try block settles; its rejection is
\* caught by the catch block of the same try
SuccessLogSettles ==
    /\ hPc = "awaitSuccessLog"
    /\ \E stored \in BOOLEAN :
         IF stored
         THEN /\ executionLogs' = Append(executionLogs, sinkWrites[Len(sinkWrites)])
              /\ hPc' = "done"
              /\ UNCHANGED <<sinkWrites, shownError>>
         ELSE /\ CatchBlock(SinkError)
              /\ UNCHANGED executionLogs
    /\ LogFrame

\* the saveExecutionLog awaited inside the catch block settles; its rejection
\* leaves handleRun rejected, after the finally block
ErrorLogSettles ==
    /\ hPc = "awaitErrorLog"
    /\ \E stored \in BOOLEAN :
         IF stored
         THEN /\ executionLogs' = Append(executionLogs, sinkWrites[Len(sinkWrites)])
              /\ hPc' = "done"
         ELSE /\ hPc' = "rejected"
              /\ UNCHANGED executionLogs
    /\ UNCHANGED <<sinkWrites, shownError>>
    /\ LogFrame

NextLog ==
    \/ RunSettles
    \/ SuccessLogSettles
    \/ ErrorLogSettles

SpecLog == InitLog /\ [][NextLog]_vars

(***************************************************************************)
(* Two runs of executeAgentWithTools interleaved at their awaits.  Every   *)
(* variable of the function (agentExecutor.js:23-34) is local to the call, *)
(* so a run is a record; the tool store it reads is shared and unchanged.  *)
(* Each run has its own script of backend responses (the k-th request is   *)
(* answered by the k-th entry, and by a final answer once the script is    *)
(* used up) and tools settle the same way for both.                        *)
(***************************************************************************)
Runs == {1, 2}

StoreTwo == {Tool("t1", "calculator"), ToolWithCode("t2", "my_tool", <<FnReturn>>)}

AgentsTwo ==
    {[role |-> "analyst", goal |-> "answer", tools |-> ids] : ids \in {<<"t1", "t2">>, <<"t1">>}}

EnvTwo == CHOOSE e \in Envs : e.network = "ok"

Reply(text) == Resp("ok", TRUE, "", 1, "", TRUE, Text(text))

Scripts ==
    {<<Reply(TextOne)>>, <<Reply(TextTwo), Reply(TextOne)>>,
     <<Resp("ok", FALSE, "Quota exceeded", 0, "", FALSE, Undefined)>>,
     <<Reply(TextTwo), Resp("fail", FALSE, "", 0, "", FALSE, Undefined)>>}

\* agentExecutor.js:23-40: the locals of a call before its loop
InitRun(ag, script) ==
    [pc |-> "loop", agent |-> ag, script |-> script,
     agentTools |-> loadAgentTools(ag, StoreTwo),
     conversationHistory |-> <<InitialMessage(ag, UserInput)>>,
     toolExecutionLog |-> <<>>, iteration |-> 0,
     functionCalls |-> <<>>, callIdx |-> 0, result |-> NoResult, exit |-> "none"]

\* the backend's response to the request of the run's current pass
ResponseOf(run) ==
    IF run.iteration <= Len(run.script) THEN run.script[run.iteration]
    ELSE Reply(TextDone)

\* the catch block at agentExecutor.js:122-133
FailRun(run, message) ==
    [run EXCEPT !.result = FailedResult(message, run.iteration, run.toolExecutionLog,
                                        run.conversationHistory),
                !.exit = "FAILED", !.pc = "returned"]

\* the end of one turn of the for..of loop
AdvanceRun(run) ==
    [run EXCEPT !.callIdx = @ + 1,
                !.pc = IF run.callIdx + 1 > Len(run.functionCalls) THEN "loop" ELSE "forCalls"]

\* agentExecutor.js:57-85: the reply is read
ReplyStep(run) ==
    LET out == callGeminiAPI(ResponseOf(run))
    IN  IF out.threw THEN FailRun(run, out.error.message)
        ELSE IF InvalidResponse(out.value) THEN FailRun(run, "Invalid response from LLM")
        ELSE LET text == out.value.text.text
                 history == Append(run.conversationHistory, Turn("model", text))
                 calls == parseFunctionCalls(text)
             IN  IF Len(calls) = 0
                 THEN [run EXCEPT !.conversationHistory = history,
                                  !.functionCalls = calls,
                                  !.result = DoneResult(text, run.iteration,
                                                        run.toolExecutionLog, history),
                                  !.exit = "DONE", !.pc = "returned"]
                 ELSE [run EXCEPT !.conversationHistory = history,
                                  !.functionCalls = calls, !.callIdx = 1,
                                  !.pc = "forCalls"]

\* agentExecutor.js:99-120: executeTool settles
ToolStep(run) ==
    LET call == run.functionCalls[run.callIdx]
        out == executeTool(FindTool(run.agentTools, call), call.arguments, EnvTwo).out
    IN  IF out.threw THEN FailRun(run, out.error.message)
        ELSE LET logged == [run EXCEPT !.toolExecutionLog =
                                Append(@, ExecutionRecord(run.iteration, call, out.value))]
                 message == ResultMessage(call, out.value)
             IN  IF message.threw THEN FailRun(logged, message.error.message)
                 ELSE AdvanceRun([logged EXCEPT !.conversationHistory =
                                                    Append(@, message.value)])

\* what a run does from one await to the next: agentExecutor.js:43-146
Step(run) ==
    CASE run.pc = "loop" ->
            IF run.iteration < MAX_ITERATIONS
            THEN [run EXCEPT !.iteration = @ + 1, !.pc = "awaitGateway"]
            ELSE [run EXCEPT !.result = ExhaustedResult(run.iteration, run.toolExecutionLog,
                                                        run.conversationHistory),
                             !.exit = "EXHAUSTED", !.pc = "returned"]
      [] run.pc = "awaitGateway" -> ReplyStep(run)
      [] run.pc = "forCalls" ->
            IF ToolFound(run.agentTools, run.functionCalls[run.callIdx])
            THEN [run EXCEPT !.pc = "awaitTool"]
            ELSE AdvanceRun(run)
      [] run.pc = "awaitTool" -> ToolStep(run)
      [] OTHER -> run

InitTwo ==
    /\ runs \in [Runs -> {InitRun(ag, script) : ag \in AgentsTwo, script \in Scripts}]
    /\ RunIdle /\ ToolIdle /\ ParseIdle /\ ParamsIdle /\ RagIdle /\ StoreIdle /\ LogIdle
    /\ BootIdle /\ DeleteIdle

\* the counter kept outside the function: a run goes on from the larger of the two
RunStep_SharedCounter(r) ==
    /\ runs[r].pc # "returned"
    /\ LET shared == IF runs[1].iteration > runs[2].iteration
                     THEN runs[1].iteration ELSE runs[2].iteration
       IN  runs' = [runs EXCEPT ![r] = Step([runs[r] EXCEPT !.iteration = shared])]
    /\ UNCHANGED <<runVars, toolVars, parseVars, paramVars, ragVars, storeVars, logVars,
                   bootVars, deleteVars>>

\* run r goes on to its next await; the other run's locals are untouched
RunStep(r) ==
    /\ runs[r].pc # "returned"
    /\ runs' = [runs EXCEPT ![r] = Step(runs[r])]
    /\ UNCHANGED <<runVars, toolVars, parseVars, paramVars, ragVars, storeVars, logVars,
                   bootVars, deleteVars>>

NextTwo == \E r \in Runs : RunStep(r)

SpecTwo == InitTwo /\ [][NextTwo]_vars

(***************************************************************************)
(* The tool store across two startups: initializeApp of App.js (held in    *)
(* TOOLS_DOCUMENTATION.md:422-523) run twice in a row.  seedDefaultAgents  *)
(* writes the agents store only and is left out; the store's requests      *)
(* succeed.                                                                *)
(***************************************************************************)
DefaultToolNames ==
    <<"calculator", "data_analyzer", "api_caller", "current_datetime", "uuid_generator">>

\* DEFAULT_TOOLS, by name
DefaultTool(i) == [name |-> DefaultToolNames[i], isBuiltIn |-> TRUE]

deprecatedNames == {"web_search", "file_reader", "code_executor", "image_analyzer"}

\* the instants the stored tools carry, oldest first; a startup seeds at the last
TimeOrder == <<"2026-01-01T00:00:00.000Z", "2026-01-02T00:00:00.000Z",
               "2026-01-03T00:00:00.000Z", ExportTime, ImportTime>>

\* new Date(stamp).getTime(), as the rank of the instant
getTime(stamp) == CHOOSE k \in 1..Len(TimeOrder) : TimeOrder[k] = stamp

\* new Date(t.updatedAt || t.createdAt || 0).getTime()
TimeOf(tool) ==
    IF "updatedAt" \in DOMAIN tool THEN getTime(tool.updatedAt)
    ELSE IF "createdAt" \in DOMAIN tool THEN getTime(tool.createdAt)
    ELSE 0

BootTool(id, name, default, created) ==
    IF default
    THEN [id |-> id, name |-> name, isBuiltIn |-> TRUE, isDefault |-> TRUE,
          createdAt |-> created]
    ELSE [id |-> id, name |-> name, isBuiltIn |-> FALSE, createdAt |-> created]

\* tools a store may hold at startup: duplicated defaults, a deprecated default,
\* user tools bearing a deprecated name and a built-in name
BootPool ==
    {BootTool("t1", "calculator", TRUE, TimeOrder[1]),
     BootTool("t2", "calculator", TRUE, TimeOrder[2]),
     BootTool("t3", "web_search", TRUE, TimeOrder[1]),
     BootTool("t4", "web_search", FALSE, TimeOrder[1]),
     BootTool("t5", "data_analyzer", FALSE, TimeOrder[2]),
     ("updatedAt" :> TimeOrder[2]) @@ BootTool("t6", "calculator", TRUE, TimeOrder[1])}

\* removeDeprecatedDefaultTools: the tools it deletes
DeprecatedDefaults(store) == {t \in store : IsDefault(t) /\ t.name \in deprecatedNames}

\* seedDefaultTools: the defaults from entry i on whose name no tool of the store
\* bore when the seeding began
RECURSIVE SeedFrom(_, _, _, _)
SeedFrom(i, existingNames, store, gone) ==
    IF i > Len(DefaultToolNames) THEN store
    ELSE IF DefaultToolNames[i] \in existingNames
    THEN SeedFrom(i + 1, existingNames, store, gone)
    ELSE SeedFrom(i + 1, existingNames,
                  store \cup {saveTool(("isDefault" :> TRUE) @@ DefaultTool(i), store, gone)},
                  gone)

seedDefaultTools(store, gone) == SeedFrom(1, {t.name : t \in store}, store, gone)

\* the position of a tool in the order getAllTools returns
KeyRank(tool) == CHOOSE k \in 1..Len(IdOrder) : IdOrder[k] = tool.id

\* does a come before b once the defaults of a name are sorted newest first
\* (the sort is stable: equal instants keep the order of getAllTools)
SortsBefore(a, b) ==
    \/ TimeOf(a) > TimeOf(b)
    \/ TimeOf(a) = TimeOf(b) /\ KeyRank(a) < KeyRank(b)

\* the pruning that deletes every default of a duplicated name
Extras_KeepNone(store) ==
    {t \in store : IsDefault(t) /\ \E u \in store : u # t /\ IsDefault(u) /\ u.name = t.name}

\* pruneDuplicateDefaultTools: the tools it deletes, all defaults of a name but the
\* first of the sorted list
Extras(store) ==
    {t \in store : IsDefault(t) /\ \E u \in store :
                        /\ u # t /\ IsDefault(u) /\ u.name = t.name
                        /\ SortsBefore(u, t)}

InitBoot ==
    /\ bStore \in SUBSET BootPool
    /\ bGone = {}
    /\ bFirst = {}
    /\ bRun = 1
    /\ bPc = "remove"
    /\ RunIdle /\ ToolIdle /\ ParseIdle /\ ParamsIdle /\ RagIdle /\ StoreIdle /\ LogIdle
    /\ TwoIdle /\ DeleteIdle

BootFrame ==
    UNCHANGED <<runVars, toolVars, parseVars, paramVars, ragVars, storeVars, logVars,
                twoVars, deleteVars>>

\* await removeDeprecatedDefaultTools()
RemoveDeprecated ==
    /\ bPc = "remove"
    /\ bStore' = bStore \ DeprecatedDefaults(bStore)
    /\ bGone' = bGone \cup {t.id : t \in DeprecatedDefaults(bStore)}
    /\ bPc' = "seed"
    /\ UNCHANGED <<bFirst, bRun>>
    /\ BootFrame

\* await seedDefaultTools()
SeedDefaults ==
    /\ bPc = "seed"
    /\ bStore' = seedDefaultTools(bStore, bGone)
    /\ bPc' = "prune"
    /\ UNCHANGED <<bGone, bFirst, bRun>>
    /\ BootFrame

\* await pruneDuplicateDefaultTools(); the first startup is followed by a second
PruneDuplicates ==
    /\ bPc = "prune"
    /\ bStore' = bStore \ Extras(bStore)
    /\ bGone' = bGone \cup {t.id : t \in Extras(bStore)}
    /\ IF bRun = 1
       THEN /\ bFirst' = bStore'
            /\ bRun' = 2
            /\ bPc' = "remove"
       ELSE /\ bPc' = "done"
            /\ UNCHANGED <<bFirst, bRun>>
    /\ BootFrame

NextBoot ==
    \/ RemoveDeprecated
    \/ SeedDefaults
    \/ PruneDuplicates

SpecBoot == InitBoot /\ [][NextBoot]_vars

(***************************************************************************)
(* Deleting an agent from the dashboard: handleDeleteAgent of App.js (held *)
(* in TOOLS_DOCUMENTATION.md:590-618) over the agents and workflows stores *)
(* of indexedDB.js.  The stores are shared by every page of the origin, so *)
(* saveWorkflow and deleteWorkflow of another page may run at any await of *)
(* the handler.  A workflow is modelled by its id and the set of agentId   *)
(* values of its steps; a workflow without an agents field behaves as one  *)
(* with no steps (indexedDB.js:135).                                       *)
(***************************************************************************)
StoredAgent(id, isDefault) == [id |-> id, isDefault |-> isDefault]

AgentsStored ==
    {StoredAgent("a1", TRUE), StoredAgent("a2", FALSE), StoredAgent("a3", FALSE)}

Workflow(id, agentIds) == [id |-> id, agents |-> agentIds]

WorkflowPool ==
    {Workflow("w1", {"a2"}), Workflow("w2", {"a3"}),
     Workflow("w3", {"a1", "a2"}), Workflow("w4", {})}

getWorkflowsUsingAgent(workflows, agentId) ==
    {workflow \in workflows : agentId \in workflow.agents}

\* the cards of the grid: agents.filter((agent) => !agent.isDefault)
getFilteredAndSortedAgents(agents) == {a \in agents : ~a.isDefault}

\* onDelete(agent.id): the card passes no second argument
CardIsDefault == Undefined

InitDelete ==
    /\ dAgents = AgentsStored
    /\ dWorkflows \in SUBSET WorkflowPool
    /\ dTarget = ""
    /\ dPc = "idle"
    /\ RunIdle /\ ToolIdle /\ ParseIdle /\ ParamsIdle /\ RagIdle /\ StoreIdle /\ LogIdle
    /\ TwoIdle /\ BootIdle

DeleteFrame ==
    UNCHANGED <<runVars, toolVars, parseVars, paramVars, ragVars, storeVars, logVars,
                twoVars, bootVars>>

\* a click on the Delete button of a card: the handler up to its first await
handleDeleteAgent(id, isDefault) ==
    /\ dPc = "idle"
    /\ dTarget' = id
    /\ dPc' = IF Truthy(isDefault) THEN "warning" ELSE "check"
    /\ UNCHANGED <<dAgents, dWorkflows>>
    /\ DeleteFrame

ClickDelete ==
    \E a \in getFilteredAndSortedAgents(dAgents) : handleDeleteAgent(a.id, CardIsDefault)

\* await getWorkflowsUsingAgent(id) settles: the error dialog or the confirm dialog
CheckSettles ==
    /\ dPc = "check"
    /\ dPc' = IF getWorkflowsUsingAgent(dWorkflows, dTarget) # {} THEN "error" ELSE "confirm"
    /\ UNCHANGED <<dAgents, dWorkflows, dTarget>>
    /\ DeleteFrame

\* the warning or error dialog is closed: the handler returns
DialogCloses ==
    /\ dPc \in {"warning", "error"}
    /\ dPc' = "idle"
    /\ dTarget' = ""
    /\ UNCHANGED <<dAgents, dWorkflows>>
    /\ DeleteFrame

\* await showConfirm(...) settles with the user's answer
ConfirmSettles ==
    /\ dPc = "confirm"
    /\ \E confirmed \in BOOLEAN :
          /\ dPc' = IF confirmed THEN "delete" ELSE "idle"
          /\ dTarget' = IF confirmed THEN dTarget ELSE ""
    /\ UNCHANGED <<dAgents, dWorkflows>>
    /\ DeleteFrame

\* await deleteAgent(id); await loadAgents()
deleteAgent ==
    /\ dPc = "delete"
    /\ dAgents' = {a \in dAgents : a.id # dTarget}
    /\ dPc' = "idle"
    /\ dTarget' = ""
    /\ UNCHANGED dWorkflows
    /\ DeleteFrame

\* saveWorkflow of a page of the origin: the builder offers the stored agents
saveWorkflow ==
    /\ \E workflow \in WorkflowPool \ dWorkflows :
          /\ workflow.agents \subseteq {a.id : a \in dAgents}
          /\ dWorkflows' = dWorkflows \cup {workflow}
    /\ UNCHANGED <<dAgents, dTarget, dPc>>
    /\ DeleteFrame

deleteWorkflow ==
    /\ \E workflow \in dWorkflows : dWorkflows' = dWorkflows \ {workflow}
    /\ UNCHANGED <<dAgents, dTarget, dPc>>
    /\ DeleteFrame

NextDelete ==
    \/ ClickDelete
    \/ CheckSettles
    \/ DialogCloses
    \/ ConfirmSettles
    \/ deleteAgent
    \/ saveWorkflow
    \/ deleteWorkflow

SpecDelete == InitDelete /\ [][NextDelete]_vars

(***************************************************************************)
(* Definitions the properties are stated with                              *)
(***************************************************************************)
Returned == pc \in {"returned", "finished"}

Last(seq) == seq[Len(seq)]

ModelTurnIndexes(history) == {i \in 1..Len(history) : history[i].role = "model"}

\* the messages of the errors callGeminiAPI throws
GatewayErrorMessages ==
    {callGeminiAPI(resp).error.message : resp \in {r \in BackendResponses : callGeminiAPI(r).threw}}

\* a JSON object {"function": <string>, "arguments": <object>}
IsCallObject(parsed) ==
    /\ ~parsed.threw
    /\ parsed.value.type = "object"
    /\ "function" \in DOMAIN parsed.value
    /\ parsed.value["function"].type = "string"
    /\ "arguments" \in DOMAIN parsed.value
    /\ parsed.value["arguments"].type = "object"

CallObjectEnd(text, i) ==
    IF \E j \in i..Len(text) : IsCallObject(JsonParse(SubSeq(text, i, j)))
    THEN CHOOSE j \in i..Len(text) : IsCallObject(JsonParse(SubSeq(text, i, j)))
    ELSE 0

\* the function-call objects a text contains, in textual order
RECURSIVE CallObjectsFrom(_, _)
CallObjectsFrom(text, i) ==
    IF i > Len(text) THEN <<>>
    ELSE IF CallObjectEnd(text, i) = 0 THEN CallObjectsFrom(text, i + 1)
    ELSE LET v == JsonParse(SubSeq(text, i, CallObjectEnd(text, i))).value
         IN  <<[name |-> v["function"], arguments |-> v["arguments"]]>>
             \o CallObjectsFrom(text, CallObjectEnd(text, i) + 1)

CallObjects(text) == CallObjectsFrom(text, 1)

\* the tool a pending invocation runs, and whether its body throws
PendingCall == functionCalls[callIdx]
PendingTool == FindTool(agentTools, PendingCall)
\* a body that is absent, empty or made of whitespace only
IsBlankBody(tool) ==
    HasBody(tool) => \A i \in 1..Len(tool.codeImplementation) :
                        tool.codeImplementation[i] \in Whitespace

BodyThrows(tool, args) == ~IsBlankBody(tool) /\ CustomCodeTry(tool, args).threw

IsStructuredFailure(v, toolName) ==
    /\ DOMAIN v = {"type", "error", "message", "toolName"}
    /\ v.error = TRUE
    /\ v.toolName = toolName

\* a transcript turn reporting a failed result of the named tool
IsFailureTurn(turn, name) ==
    /\ turn.role = "user"
    /\ turn.text[1] = "Tool \"" \o name \o "\" execution result:\n"
    /\ \E k \in 1..(Len(turn.text) - 2) :
          turn.text[k] = Quote("error") /\ turn.text[k + 1] = ":" /\ turn.text[k + 2] = "true"

\* the status tag the caller of executeAgent files the run under
\* (RunAgentModal handleRun: "success" on return, "error" on a thrown error)
OutcomeStatus(outcome) == IF outcome.threw THEN "error" ELSE "success"

(***************************************************************************)
(* C1.  The iteration counter never exceeds MAX_ITERATIONS, and a run in   *)
(* which every reply yields a parsed function call and no gateway call     *)
(* fails ends EXHAUSTED after exactly MAX_ITERATIONS passes.  This is the   *)
(* claim as stated; a tool result JSON.stringify cannot serialize ends the  *)
(* run FAILED in an earlier pass.                                           *)
(***************************************************************************)
C1_Original ==
    /\ iteration <= MAX_ITERATIONS
    /\ (/\ Returned
        /\ exit # "DONE"
        /\ ~(exit = "FAILED" /\
             result.error \in GatewayErrorMessages \cup {"Invalid response from LLM"}))
       => /\ exit = "EXHAUSTED"
          /\ result.iterations = MAX_ITERATIONS
          /\ result.success = FALSE
          /\ result.error = MaxIterationsMessage

(***************************************************************************)
(* C2.  A non-empty reply that contains no function-call object ends the   *)
(* run in DONE in the pass that received it: success, the reply text as    *)
(* the result, iterations the current pass; and a run that has returned    *)
(* sends no further request and invokes no further tool.                   *)
(***************************************************************************)
C2_Theorem ==
    /\ [][(/\ pc = "awaitGateway"
           /\ conversationHistory' # conversationHistory
           /\ CallObjects(lastReply') = <<>>)
          => /\ pc' = "returned"
             /\ exit' = "DONE"
             /\ result'.success = TRUE
             /\ result'.result = Text(lastReply')
             /\ result'.iterations = iteration
             /\ gatewayRequests' = gatewayRequests
             /\ invocations' = <<>>]_vars
    /\ [][Returned => /\ pc' \in {"returned", "finished"}
                      /\ gatewayRequests' = gatewayRequests
                      /\ invocations' = invocations
                      /\ conversationHistory' = conversationHistory]_vars

C2_Witness ==
    /\ exit = "DONE"
    /\ lastReply = TextMalformed
    /\ iteration = 3
    /\ Len(toolExecutionLog) >= 2

(***************************************************************************)
(* C3, as stated.  When the next gateway request is issued (or the run     *)
(* ends EXHAUSTED), executeTool has been called once for each of the N     *)
(* function calls of the last reply.                                       *)
(***************************************************************************)
PassCompleted == (pc = "awaitGateway" /\ iteration > 1) \/ exit = "EXHAUSTED"

ResolvedCalls(text) ==
    SelectSeq(CallObjects(text),
              LAMBDA c : \E i \in 1..Len(agentTools) : agentTools[i].name = c.name.str)

C4_Theorem ==
    /\ [][(pc = "awaitTool" /\ BodyThrows(PendingTool, PendingCall.arguments))
          => /\ exit' = "none"
             /\ pc' \in {"forCalls", "loop"}
             /\ Len(toolExecutionLog') = Len(toolExecutionLog) + 1
             /\ SubSeq(toolExecutionLog', 1, Len(toolExecutionLog)) = toolExecutionLog
             /\ Last(toolExecutionLog').iteration = iteration
             /\ Last(toolExecutionLog').tool = PendingCall.name
             /\ IsStructuredFailure(Last(toolExecutionLog').result, PendingTool.name)
             /\ Len(conversationHistory') = Len(conversationHistory) + 1
             /\ SubSeq(conversationHistory', 1, Len(conversationHistory)) = conversationHistory
             /\ IsFailureTurn(Last(conversationHistory'), PendingTool.name)]_vars
    /\ [][(pc = "loop" /\ iteration < MAX_ITERATIONS)
          => (pc' = "awaitGateway" /\ gatewayRequests' = gatewayRequests + 1)]_vars

C4_Witness ==
    /\ pc = "awaitGateway"
    /\ \E i \in 1..Len(toolExecutionLog) :
          /\ toolExecutionLog[i].result =
                StructuredFailure("Custom code execution failed: boom", "my_tool")
          /\ toolExecutionLog[i].iteration = iteration - 1
    /\ \E i \in 1..Len(conversationHistory) :
          IsFailureTurn(conversationHistory[i], "my_tool")

(***************************************************************************)
(* C5.  executeTool never throws: every call returns a value, and whenever *)
(* the implementation it dispatched to threw, that value is exactly        *)
(* {error: true, message, toolName: tool.name}.                            *)
(***************************************************************************)
C5_Theorem ==
    tPc = "done" =>
        /\ ~tOut.threw
        /\ ExecuteToolTry(tTool, tArgs, tEnv).out.threw
              => IsStructuredFailure(tOut.value, tTool.name)

C5_Witness ==
    /\ tPc = "done"
    /\ tArgs = Null
    /\ tTool.name = "current_datetime"
    /\ ~HasBody(tTool)
    /\ ~tOut.threw
    /\ IsStructuredFailure(tOut.value, "current_datetime")

(***************************************************************************)
(* C6.  A run that failed because callGeminiAPI threw in pass k returns    *)
(* success = false, result = null, iterations = k, and the transcript and  *)
(* the log of passes 1..k-1: the transcript holds k-1 model turns, every   *)
(* record is of an earlier pass, and both are what the run holds; k        *)
(* requests were sent in all.                                              *)
(***************************************************************************)
GatewayFailed == exit = "FAILED" /\ result.error \in GatewayErrorMessages

C6_Theorem ==
    GatewayFailed =>
        /\ result.success = FALSE
        /\ result.result = Null
        /\ result.iterations = iteration
        /\ result.conversationHistory = conversationHistory
        /\ result.toolExecutions = toolExecutionLog
        /\ Cardinality(ModelTurnIndexes(result.conversationHistory)) = iteration - 1
        /\ \A i \in 1..Len(result.toolExecutions) :
              result.toolExecutions[i].iteration < iteration
        /\ gatewayRequests = iteration

C6_Witness ==
    /\ GatewayFailed
    /\ result.error = "Content blocked: SAFETY"
    /\ result.iterations = 3
    /\ Len(result.toolExecutions) = 2

(***************************************************************************)
(* C7, as stated.  The result of an EXHAUSTED run is the text of the last  *)
(* model turn of the transcript.  The code returns the text of the last    *)
(* turn, which is a tool-result turn when the last pass executed a tool.   *)
(***************************************************************************)
C7_Original ==
    (exit = "EXHAUSTED" /\ ModelTurnIndexes(result.conversationHistory) # {})
    => result.result =
          Text(result.conversationHistory[
                  CHOOSE i \in ModelTurnIndexes(result.conversationHistory) :
                      \A j \in ModelTurnIndexes(result.conversationHistory) : j <= i].text)

(***************************************************************************)
(* C8, as stated.  What the caller of executeAgent receives for an         *)
(* EXHAUSTED run has a status other than that of a FAILED run, and for a   *)
(* FAILED run it carries the message with the partial transcript and log.  *)
(* executeAgent throws an Error holding only a message in both cases.      *)
(***************************************************************************)
C8_Original ==
    pc = "finished" =>
        /\ exit = "EXHAUSTED" =>
              OutcomeStatus(agentOutcome) #
                 OutcomeStatus(executeAgent(FailedResult("Failed to fetch", iteration,
                                                         toolExecutionLog, conversationHistory)))
        /\ exit = "FAILED" =>
              /\ agentOutcome.threw
              /\ {"message", "conversationHistory", "toolExecutions"}
                    \subseteq DOMAIN agentOutcome.error

(***************************************************************************)
(* C9, as stated.  A tool whose body is empty, blank or absent is          *)
(* dispatched to no implementation and yields a structured failure,        *)
(* whatever its name.                                                      *)
(***************************************************************************)
C9_Original ==
    (tPc = "done" /\ IsBlankBody(tTool))
    => (tPath = "none" /\ IsStructuredFailure(tOut.value, tTool.name))

(***************************************************************************)
(* C9, amended.  A tool whose body is empty, blank or absent never runs    *)
(* the custom-code path; it yields the "not implemented" structured        *)
(* failure exactly when its name is no built-in name, and a built-in name  *)
(* runs the built-in implementation.                                       *)
(***************************************************************************)
NotImplemented(name) ==
    StructuredFailure("Tool '" \o name \o "' is not implemented and has no custom code", name)

C9_Theorem ==
    (tPc = "done" /\ IsBlankBody(tTool))
    => /\ tPath # "custom"
       /\ ~EntryPointInvoked(tTool)
       /\ tPath = "none" <=> tTool.name \notin BuiltinNames
       /\ tPath = "none" => tOut = Return(NotImplemented(tTool.name))
       /\ tPath = "builtin" => tOut.value # NotImplemented(tTool.name)

C9_Witness ==
    /\ tPc = "done"
    /\ HasBody(tTool)
    /\ tTool.codeImplementation = <<"\n", " ", "\t">>
    /\ tTool.name = "calculator"
    /\ tArgs = [type |-> "object", expression |-> Str("2 + 2")]
    /\ tPath = "builtin"
    /\ tOut.value.result = 4

(***************************************************************************)
(* C10.  executeTool takes one path, chosen by the body first and the name *)
(* second: a non-blank body runs as custom code whatever the name; without *)
(* one a built-in name runs the built-in; any other name yields "Tool      *)
(* '<name>' is not implemented and has no custom code" and runs nothing.   *)
(***************************************************************************)
C10_Theorem ==
    tPc = "done" =>
        /\ ~IsBlankBody(tTool) =>
              /\ tPath = "custom"
              /\ LET custom == executeCustomCode(tTool, tArgs)
                 IN  IF custom.threw
                     THEN /\ IsStructuredFailure(tOut.value, tTool.name)
                          /\ tOut.value.message = custom.error.message
                     ELSE tOut = custom
        /\ (IsBlankBody(tTool) /\ tTool.name \in BuiltinNames) => tPath = "builtin"
        /\ (IsBlankBody(tTool) /\ tTool.name \notin BuiltinNames) =>
              /\ tPath = "none"
              /\ tOut = Return(NotImplemented(tTool.name))

C10_Witness ==
    /\ tPc = "done"
    /\ tTool.name = "calculator"
    /\ tTool = ToolWithCode("t1", "calculator", <<StmtPlain, FnReturn>>)
    /\ tPath = "custom"
    /\ tOut = Return(CustomValue)

(***************************************************************************)
(* C11.  A parsed call whose name matches no tool of the agent's resolved  *)
(* set is skipped: the step that handles it invokes no tool, appends no    *)
(* record and no transcript turn, leaves the run un-returned, and moves on *)
(* to the next call of the same reply (or back to the while test).         *)
(***************************************************************************)
Unresolvable(call) ==
    \/ call.name.type # "string"
    \/ \A i \in 1..Len(agentTools) : agentTools[i].name # call.name.str

C11_Theorem ==
    [][(pc = "forCalls" /\ Unresolvable(functionCalls[callIdx])) =>
          /\ invocations' = invocations
          /\ toolExecutionLog' = toolExecutionLog
          /\ conversationHistory' = conversationHistory
          /\ functionCalls' = functionCalls
          /\ iteration' = iteration
          /\ exit' = "none"
          /\ result' = result
          /\ callIdx' = callIdx + 1
          /\ pc' = IF callIdx < Len(functionCalls) THEN "forCalls" ELSE "loop"]_vars

\* a skipped first call followed by the invocation of the second call of the reply
C11_Witness ==
    /\ pc = "awaitTool"
    /\ callIdx = 2
    /\ Unresolvable(functionCalls[1])
    /\ Len(invocations) = 1
    /\ invocations[1].tool.name = "ghost"
    /\ \A k \in 1..Len(toolExecutionLog) : toolExecutionLog[k].iteration < iteration
    /\ Last(conversationHistory).role = "model"

(***************************************************************************)
(* C15, as stated.  The tools catalog is not re-sent on every iteration:   *)
(* the requests after the first carry no catalog.                          *)
(***************************************************************************)
CatalogIn(text) == \E k \in 1..Len(text) : text[k] = ToolsHeader

CatalogCount(text) == Cardinality({k \in 1..Len(text) : text[k] = ToolsHeader})

C15_Original ==
    (pc = "awaitGateway" /\ iteration > 1) =>
        \A i \in 1..Len(requestBody.contents) : ~CatalogIn(requestBody.contents[i].text)

(***************************************************************************)
(* C15, amended.  When at least one tool resolves, every request carries   *)
(* the catalog exactly once, appended to the first turn of the transcript  *)
(* copy that is sent and to no later turn; the stored transcript never     *)
(* holds it, so it does not accumulate.  Without tools the request is the  *)
(* transcript.                                                             *)
(***************************************************************************)
C15_Theorem ==
    pc = "awaitGateway" =>
        LET contents == requestBody.contents
        IN  /\ Len(contents) = Len(conversationHistory)
            /\ \A i \in 1..Len(conversationHistory) :
                  ~CatalogIn(conversationHistory[i].text)
            /\ \A i \in 2..Len(contents) : contents[i] = conversationHistory[i]
            /\ contents[1].role = conversationHistory[1].role
            /\ SubSeq(contents[1].text, 1, Len(conversationHistory[1].text))
                  = conversationHistory[1].text
            /\ Len(agentTools) > 0 =>
                  /\ CatalogCount(contents[1].text) = 1
                  /\ contents[1].text[Len(conversationHistory[1].text) + 1] = ToolsHeader
                  /\ \A i \in 1..Len(agentTools) :
                        \E k \in 1..Len(contents[1].text) :
                           contents[1].text[k] = "Tool: " \o agentTools[i].name \o "\n"
            /\ Len(agentTools) = 0 => contents = conversationHistory

\* the third request of a run with tools: catalog in turn 1, tool results after it
C15_Witness ==
    /\ pc = "awaitGateway"
    /\ iteration = 3
    /\ Len(agentTools) > 0
    /\ Len(toolExecutionLog) >= 2
    /\ CatalogIn(requestBody.contents[1].text)
    /\ Len(requestBody.contents) >= 5

(***************************************************************************)
(* C13, as stated.  Every well-formed call that appears after a malformed  *)
(* match (a regex match that fails JSON parsing) is still returned.        *)
(***************************************************************************)
\* the successive matches of the pattern, as <<start, end>>, from position i on
RECURSIVE MatchList(_, _)
MatchList(text, i) ==
    IF RegexExec(text, i)[1] = 0 THEN <<>>
    ELSE <<RegexExec(text, i)>> \o MatchList(text, RegexExec(text, i)[2] + 1)

MatchParses(text, m) == ~JsonParse(SubSeq(text, m[1], m[2])).threw

CallOfMatch(text, m) ==
    LET v == JsonParse(SubSeq(text, m[1], m[2])).value
    IN  [name |-> Field(v, "function"), arguments |-> Field(v, "arguments")]

\* the positions at which a well-formed call object of the text starts
RECURSIVE CallStartsFrom(_, _)
CallStartsFrom(text, i) ==
    IF i > Len(text) THEN {}
    ELSE IF CallObjectEnd(text, i) = 0 THEN CallStartsFrom(text, i + 1)
    ELSE {i} \cup CallStartsFrom(text, CallObjectEnd(text, i) + 1)

CallAt(text, i) ==
    LET v == JsonParse(SubSeq(text, i, CallObjectEnd(text, i))).value
    IN  [name |-> v["function"], arguments |-> v["arguments"]]

C14_Original ==
    pPc = "done" =>
        /\ pCalls = CallObjects(pText)
        /\ pCalls = <<>> <=> CallObjects(pText) = <<>>

(***************************************************************************)
(* C12.  Resolving the agent's tool identifiers yields the definitions of  *)
(* exactly the identifiers still in the store, in the agent's order; the   *)
(* others are dropped, and a run started after a tool of the agent was     *)
(* deleted proceeds into the loop.                                         *)
(***************************************************************************)
StillPresent(ids) == SelectSeq(ids, LAMBDA id : \E t \in toolStore : t.id = id)

C12_Theorem ==
    sPc = "running" =>
        /\ Len(agentTools) = Len(StillPresent(agent.tools))
        /\ \A k \in 1..Len(agentTools) :
              /\ agentTools[k] \in toolStore
              /\ agentTools[k].id = StillPresent(agent.tools)[k]
        /\ pc = "loop"
        /\ exit = "none"

\* a run started after "Delete Anyway" on one of the agent's tools
C12_Witness ==
    /\ sPc = "running"
    /\ pc = "loop"
    /\ \E i \in 1..Len(agent.tools) : agent.tools[i] \in deleted
    /\ Len(agentTools) >= 1
    /\ Len(agentTools) < Len(agent.tools)

(***************************************************************************)
(* C18.  Export then import keeps the definition: every custom tool of the *)
(* agent is written to the file with its name, parameters and body, and    *)
(* every tool of the file is stored with the same name, parameters and     *)
(* body under an identifier no tool had before.                            *)
(***************************************************************************)
SameDefinition(a, b) ==
    /\ a.name = b.name
    /\ a.parameters = b.parameters
    /\ HasBody(a) <=> HasBody(b)
    /\ HasBody(a) => a.codeImplementation = b.codeImplementation

C18_Theorem ==
    [][/\ exportFile' # exportFile =>
             /\ \A t \in toolStore :
                   (Includes(agent.tools, t.id) /\ ~IsDefault(t)) =>
                      \E i \in 1..Len(exportFile') :
                         exportFile'[i].originalId = t.id /\ SameDefinition(exportFile'[i], t)
             /\ \A i \in 1..Len(exportFile') :
                   \E t \in toolStore : t.id = exportFile'[i].originalId
       /\ (toolStore' # toolStore /\ deleted' = deleted) =>
             /\ toolStore \subseteq toolStore'
             /\ Cardinality(toolStore' \ toolStore) = Len(exportFile)
             /\ \A i \in 1..Len(exportFile) :
                   \E saved \in toolStore' \ toolStore :
                      /\ SameDefinition(saved, exportFile[i])
                      /\ saved.id \notin {t.id : t \in toolStore} \cup deleted
                      /\ saved.id # exportFile[i].originalId]_vars

\* the store holds a custom tool and its re-imported copy
C18_Witness ==
    \E t \in toolStore, saved \in toolStore :
        /\ t.id = "t1"
        /\ saved.id # t.id
        /\ "exportedAt" \in DOMAIN saved
        /\ SameDefinition(saved, t)
        /\ t.codeImplementation = <<FnUseArgs>>
        /\ Len(t.parameters) = 1

(***************************************************************************)
(* C16, as stated.  With retrieval enabled a failing knowledge search      *)
(* never fails the run, which goes on as if no document had been found,    *)
(* and the search is never called when the flag is unset; on both paths.   *)
(***************************************************************************)
BackendAnswers(resp) ==
    resp.fetch = "ok" /\ resp.ok /\ resp.candidates > 0 /\ resp.hasContent

C16_Original ==
    /\ (ragPc # "start" /\ ~ragAgent.ragEnabled) => searchCalls = 0
    /\ (ragPc = "loop" /\ ragAgent.ragEnabled /\ ragSearch.threw) =>
          /\ ragOutcome = NoOutcome
          /\ systemPrompt = buildSystemPrompt(ragAgent)
    /\ (ragPc = "finished" /\ ragAgent.ragEnabled /\ ragSearch.threw
          /\ BackendAnswers(ragBackend)) =>
          /\ ~ragOutcome.threw
          /\ ragOutcome.value = ragBackend.text

(***************************************************************************)
(* C17, as stated.  Each generation parameter sent equals the value the    *)
(* caller supplied whenever one was supplied, the value 0 included, and    *)
(* is the default (0.7, 0.95, 40, 8000) only when the caller left it unset.*)
(***************************************************************************)
\* the value sent is the value supplied, or the number a supplied string denotes
Denotes(sent, supplied) ==
    \/ sent = supplied
    \/ supplied.type = "string" /\ sent = Num(supplied.str)

SentAsSupplied(sentKey, key, default) ==
    IF key \in DOMAIN customParams
    THEN Denotes(generationConfig[sentKey], customParams[key])
    ELSE generationConfig[sentKey] = Num(default)

C17_Original ==
    gPc = "done" =>
        /\ SentAsSupplied("temperature", "temperature", "0.7")
        /\ SentAsSupplied("topP", "topP", "0.95")
        /\ SentAsSupplied("topK", "TopK", "40")
        /\ SentAsSupplied("maxOutputTokens", "maxTokens", "8000")

(***************************************************************************)
(* C19, as stated.  After a run started from RunAgentModal completes, the  *)
(* execution log sink receives exactly one entry for that run, with status *)
(* "success" if and only if the run succeeded and "error" otherwise,       *)
(* carrying the run's input, output or error text, parameters and model.   *)
(* The entries the sink receives are the ones handed to it.                *)
(***************************************************************************)
HandleRunOver == hPc \in {"done", "rejected"}

C19_Original ==
    HandleRunOver =>
        /\ Len(sinkWrites) = 1
        /\ sinkWrites[1].status = (IF runOutcome.threw THEN "error" ELSE "success")
        /\ sinkWrites[1].input = runInput.input
        /\ sinkWrites[1].params = runInput.params
        /\ sinkWrites[1].model = runInput.model
        /\ sinkWrites[1].output =
              (IF runOutcome.threw THEN Str(runOutcome.error.message) ELSE runOutcome.value)

(***************************************************************************)
(* C20, as stated.  The built-in calculator on "2 + 2" returns result 4,   *)
(* and on "2 + 2; alert(1)" every character outside digits, + - * / ( ) .  *)
(* and whitespace is stripped before evaluation, so that the result        *)
(* derives only from "2 + 2": result 4.                                    *)
(***************************************************************************)
CalculatorRan(expr) ==
    /\ tPc = "done"
    /\ tPath = "builtin"
    /\ tTool.name = "calculator"
    /\ tArgs = [type |-> "object", expression |-> Str(expr)]

ResultIs(n) ==
    /\ ~tOut.threw
    /\ "result" \in DOMAIN tOut.value
    /\ tOut.value.result = n

C20_Original ==
    /\ CalculatorRan("2 + 2") => ResultIs(4)
    /\ CalculatorRan("2 + 2; alert(1)") => ResultIs(4)

(***************************************************************************)
(* C21, as stated.  Between loop passes and in every returned result the   *)
(* tool execution log and the transcript correspond one to one: there are  *)
(* as many records as tool-result turns (user-origin turns after the       *)
(* first), the i-th record names the tool of the i-th tool-result turn,    *)
(* and its iteration is the pass in which that turn was appended (the      *)
(* number of model-origin turns before it, one being appended per pass).   *)
(***************************************************************************)
ToolResultIndexes(history) ==
    SelectSeq([j \in 1..Len(history) |-> j],
              LAMBDA j : j > 1 /\ history[j].role = "user")

PassOfTurn(history, j) ==
    Cardinality({i \in 1..j : history[i].role = "model"})

Corresponds(log, history) ==
    LET at == ToolResultIndexes(history)
    IN  /\ Len(log) = Len(at)
        /\ \A i \in 1..Len(log) :
              /\ log[i].tool.type = "string"
              /\ history[at[i]].text[1] = "Tool \"" \o log[i].tool.str \o "\" execution result:\n"
              /\ log[i].iteration = PassOfTurn(history, at[i])

C21_Original ==
    /\ pc = "loop" => Corresponds(toolExecutionLog, conversationHistory)
    /\ Returned => Corresponds(result.toolExecutions, result.conversationHistory)

(***************************************************************************)
(* C22.  The transcript is append-only for the whole run: it starts with   *)
(* exactly one user-origin turn holding the assembled prompt and the user  *)
(* request, every step leaves the earlier transcript a prefix of the later *)
(* one (so every earlier state is a prefix of every later one), and a      *)
(* Model Gateway call leaves the stored transcript unchanged.              *)
(***************************************************************************)
IsPrefix(a, b) == Len(a) <= Len(b) /\ SubSeq(b, 1, Len(a)) = a

GatewayCalled == gatewayRequests' = gatewayRequests + 1

C22_Theorem ==
    [][/\ iteration = 0 =>
             /\ Len(conversationHistory) = 1
             /\ conversationHistory[1].role = "user"
             /\ conversationHistory[1].text =
                   buildSystemPrompt(agent) \o <<"\n\n---\n\nUser Request: " \o UserInput>>
       /\ IsPrefix(conversationHistory, conversationHistory')
       /\ GatewayCalled => conversationHistory' = conversationHistory]_vars

C22_Witness ==
    /\ pc = "awaitGateway"
    /\ iteration = 3
    /\ Len(agentTools) > 0
    /\ Len(conversationHistory) >= 5
    /\ requestBody.contents # conversationHistory

(***************************************************************************)
(* C23.  Within one pass the parsed calls are processed strictly           *)
(* sequentially: when a call is invoked, every call invoked before it in   *)
(* the pass has completed and has its record and its transcript turn       *)
(* appended, in order; and never are two tool invocations, or a tool       *)
(* invocation and a gateway call, in flight: a tool is invoked and a       *)
(* request is issued only when nothing is awaited and every invocation     *)
(* made so far has its record.                                             *)
(***************************************************************************)
RecordsOfPass == SelectSeq(toolExecutionLog, LAMBDA r : r.iteration = iteration)

TurnsSinceReply ==
    LET ends == {0} \cup {i \in 1..Len(conversationHistory) :
                            conversationHistory[i].role = "model"}
        last == CHOOSE i \in ends : \A j \in ends : j <= i
    IN  SubSeq(conversationHistory, last + 1, Len(conversationHistory))

ToolInvoked == invocations' # invocations /\ invocations' # <<>>

NothingAwaited == pc \notin {"awaitTool", "awaitGateway"}

EarlierCallsFolded ==
    /\ Len(RecordsOfPass) = Len(invocations)
    /\ Len(TurnsSinceReply) = Len(invocations)
    /\ \A k \in 1..Len(invocations) :
          /\ RecordsOfPass[k].tool.str = invocations[k].tool.name
          /\ TurnsSinceReply[k].role = "user"
          /\ TurnsSinceReply[k].text[1] =
                "Tool \"" \o invocations[k].tool.name \o "\" execution result:\n"

C23_Theorem ==
    [][/\ ToolInvoked =>
             /\ NothingAwaited
             /\ Len(invocations') = Len(invocations) + 1
             /\ SubSeq(invocations', 1, Len(invocations)) = invocations
             /\ EarlierCallsFolded
       /\ GatewayCalled =>
             /\ NothingAwaited
             /\ Len(RecordsOfPass) = Len(invocations)]_vars

C23_Witness ==
    /\ pc = "awaitTool"
    /\ Len(invocations) = 2
    /\ Len(RecordsOfPass) = 1
    /\ Len(TurnsSinceReply) = 1

(***************************************************************************)
(* C24.  Each loop pass issues exactly one Model Gateway request and a     *)
(* failed request is never re-issued: the requests made so far are as many *)
(* as the passes started, and in every outcome (DONE, FAILED, EXHAUSTED)   *)
(* the number of requests made during the run equals the returned          *)
(* iterations count.                                                       *)
(***************************************************************************)
C24_Theorem ==
    /\ gatewayRequests = iteration
    /\ Returned =>
          /\ exit \in {"DONE", "FAILED", "EXHAUSTED"}
          /\ gatewayRequests = result.iterations

C24_Witness ==
    /\ Returned
    /\ exit = "FAILED"
    /\ result.error \in GatewayErrorMessages
    /\ result.iterations = 2
    /\ gatewayRequests = 2

(***************************************************************************)
(* C25, as stated.  A tool with a non-blank body that does not define a    *)
(* callable entry point named execute yields a structured failure result   *)
(* (message reporting the missing entry point, toolName set) and no entry  *)
(* point is ever invoked for that call.                                    *)
(***************************************************************************)
DefinesExecute(tool) ==
    \E i \in 1..Len(tool.codeImplementation) :
        tool.codeImplementation[i] \in ExecuteFragments

NoEntryPointMessage ==
    "Custom code execution failed: Code must define an \"execute\" function"

CustomWithoutExecute == tPc = "done" /\ ~IsBlankBody(tTool) /\ ~DefinesExecute(tTool)

Parses(tool) == ~Has(tool.codeImplementation, StmtSyntax)

RunsToItsEnd(tool) == Parses(tool) /\ FirstExit(tool.codeImplementation) = ""

\* the message reports the missing entry point when the body ran to its end,
\* and the error that stopped the body otherwise
C25_Original ==
    CustomWithoutExecute =>
        /\ ~tOut.threw
        /\ IsStructuredFailure(tOut.value, tTool.name)
        /\ RunsToItsEnd(tTool) => tOut.value.message = NoEntryPointMessage
        /\ ~EntryPointInvoked(tTool)

(***************************************************************************)
(* C25, amended.  For a non-blank body that defines no function execute:   *)
(* a body that runs to its end yields the structured failure "Custom code  *)
(* execution failed: Code must define an "execute" function" (toolName     *)
(* set) and nothing is invoked; a body that does not parse, or throws or   *)
(* returns a non-function at its top level, also yields a structured       *)
(* failure and nothing is invoked, the message being that error's; a body  *)
(* that returns a function at its top level has that function invoked as   *)
(* the entry point and its value is the result.                            *)
(***************************************************************************)
ReturnsAFunction(tool) == Parses(tool) /\ FirstExit(tool.codeImplementation) = StmtReturnFn

C25_Theorem ==
    CustomWithoutExecute =>
        /\ tPath = "custom"
        /\ ~tOut.threw
        /\ RunsToItsEnd(tTool) => tOut.value.message = NoEntryPointMessage
        /\ ~ReturnsAFunction(tTool) =>
              /\ IsStructuredFailure(tOut.value, tTool.name)
              /\ ~EntryPointInvoked(tTool)
        /\ ReturnsAFunction(tTool) =>
              /\ EntryPointInvoked(tTool)
              /\ tOut = Return(CustomValue)

C25_Witness ==
    /\ tPc = "done"
    /\ tTool = ToolWithCode("t1", "my_tool", <<StmtPlain>>)
    /\ tOut = Return(StructuredFailure(NoEntryPointMessage, "my_tool"))

(***************************************************************************)
(* C26.  Two runs interleaved arbitrarily at their suspension points share *)
(* no mutable orchestrator state: at every moment each run's transcript,   *)
(* execution log, iteration counter and outcome are those of the same run  *)
(* executed alone with the same replies and tool results.                  *)
(***************************************************************************)
MaxSteps == 40

\* the states a run goes through when it executes alone
RECURSIVE Alone(_, _)
Alone(run, n) ==
    IF n = 0 \/ run.pc = "returned" THEN {run}
    ELSE {run} \cup Alone(Step(run), n - 1)

Observed(run) ==
    [pc |-> run.pc, conversationHistory |-> run.conversationHistory,
     toolExecutionLog |-> run.toolExecutionLog, iteration |-> run.iteration,
     result |-> run.result, exit |-> run.exit]

DefaultsNamed(store, name) ==
    {t \in store : "isDefault" \in DOMAIN t /\ t.isDefault = TRUE /\ t.name = name}

Reconciled(store) ==
    /\ \A name \in {"web_search", "file_reader", "code_executor", "image_analyzer"} :
          DefaultsNamed(store, name) = {}
    /\ \A t \in store : Cardinality(DefaultsNamed(store, t.name)) <= 1

C27_Theorem ==
    /\ bRun = 2 => bStore = bFirst
    /\ bPc = "done" => Reconciled(bStore)

C27_Witness ==
    /\ bPc = "done"
    /\ bRun = 2
    /\ {"t1", "t3", "t6"} \subseteq bGone
    /\ \E t \in bStore : t.id = "t4"
    /\ Cardinality(bStore) = 6

(***************************************************************************)
(* C28.  During a run the Tool Invoker is only ever called with a tool     *)
(* definition of the agent's resolved set: a tool of the store, or a       *)
(* built-in name, that is not among the agent's tool identifiers is never  *)
(* executed, whatever function name the model emits.                       *)
(***************************************************************************)
ListedByAgent(id) == \E k \in 1..Len(agent.tools) : agent.tools[k] = id

OfTheAgent(tool) == tool \in toolStore /\ ListedByAgent(tool.id)

C28_Theorem ==
    /\ \A i \in 1..Len(invocations) : OfTheAgent(invocations[i].tool)
    /\ \A i \in 1..Len(toolExecutionLog) :
          \E tool \in toolStore :
              ListedByAgent(tool.id) /\ tool.name = toolExecutionLog[i].tool.str

\* the model named the calculator, a built-in that the store holds and the agent
\* does not list; the pass went by without an invocation
C28_Witness ==
    /\ pc = "awaitGateway"
    /\ iteration = 2
    /\ lastReply = TextOne
    /\ \E tool \in toolStore : tool.name = "calculator" /\ ~ListedByAgent(tool.id)
    /\ invocations = <<>>
    /\ toolExecutionLog = <<>>

(***************************************************************************)
(* C29.  A gateway reply whose extracted text is empty or missing is       *)
(* treated as a failure of the run ("Invalid response from LLM"), never as *)
(* DONE: no model-origin turn is appended for it, no function-call parsing *)
(* or tool invocation happens, and the result has success = false with     *)
(* iterations equal to the current pass.  Stated on the steps that settle  *)
(* a gateway call: such a step either appends a model-origin turn holding  *)
(* a non-empty text, or fails the run leaving transcript, log, parsed      *)
(* calls and invocations as they were; and no transcript or DONE result    *)
(* ever holds an empty reply.                                              *)
(***************************************************************************)
ReplyAppended ==
    /\ conversationHistory' = Append(conversationHistory, Turn("model", lastReply'))
    /\ lastReply' # <<>>

RunFailedAtOnce ==
    /\ pc' = "returned"
    /\ exit' = "FAILED"
    /\ result'.success = FALSE
    /\ result'.iterations = iteration
    /\ result'.conversationHistory = conversationHistory
    /\ UNCHANGED <<conversationHistory, toolExecutionLog, functionCalls, invocations,
                   lastReply, iteration>>

NoEmptyReplyKept ==
    /\ \A i \in 1..Len(conversationHistory) :
          conversationHistory[i].role = "model" => conversationHistory[i].text # <<>>
    /\ exit = "DONE" => result.result.text # <<>>

C29_Theorem ==
    [][/\ NoEmptyReplyKept
       /\ pc = "awaitGateway" => (ReplyAppended \/ RunFailedAtOnce)]_vars

C29_Witness ==
    /\ pc = "returned"
    /\ exit = "FAILED"
    /\ result.error = "Invalid response from LLM"
    /\ result.iterations = 2
    /\ Last(conversationHistory).role = "user"
    /\ Len(toolExecutionLog) = 1

(***************************************************************************)
(* C30.  Through handleDeleteAgent a default agent is never deleted, and a *)
(* non-default agent is deleted only if no workflow references it at the   *)
(* moment deleteAgent executes, including under interleavings where a      *)
(* workflow that uses the agent is saved while the confirmation dialog is  *)
(* pending.  Stated on every step that removes an agent from the store.    *)
(***************************************************************************)
AgentsRemoved == dAgents \ dAgents'

ReferencedByAWorkflow(id) == \E workflow \in dWorkflows : id \in workflow.agents

C30_Original ==
    [][\A a \in AgentsRemoved : ~a.isDefault /\ ~ReferencedByAWorkflow(a.id)]_vars

\* the part of the statement that holds: no default agent leaves the store
C30_DefaultsKept == StoredAgent("a1", TRUE) \in dAgents
====
